---- MODULE Spec2Model ----
(***************************************************************************)
(* A model of the ReRevolve token service (token-service.ts): the TLV      *)
(* decoder, the credential extraction from the host's state.vscdb, and the *)
(* per-account credential store kept in VS Code SecretStorage.             *)
(*                                                                         *)
(* Strings of the program are TLA+ strings; a Buffer is a sequence of      *)
(* bytes 0..255 with the program's 0-based offsets (data[pos] of the code  *)
(* is data[pos + 1] here).  Date.now() is the variable now, in             *)
(* milliseconds.  An async method is cut at its awaits on I/O: one action  *)
(* per stretch of code that runs between two such awaits.                  *)
(***************************************************************************)
EXTENDS Integers, Sequences, FiniteSets, TLC

VARIABLES
    now,        \* Date.now(), milliseconds
    secrets,    \* vscode.SecretStorage: key (the email after TOKEN_PREFIX) -> stored value
    db,         \* the host's state.vscdb: the three rows read and the file's bytes as scanned
    calls,      \* the async method invocations in flight, one slot per caller
    last,       \* the invocation that returned last, when it was a getToken that
                \* made its expiry check before the threshold of the record it
                \* found; forgotten when its key is written
    nOps,       \* how many invocations were started
    authStatusRow,    \* the antigravityAuthStatus row of state.vscdb as the sqlite3
                      \* command line reads and writes it: its text, or no row
    snapshotsSecret,  \* vscode.SecretStorage under SNAPSHOTS_KEY
    snapshotsCache,   \* AccountSwitcher.snapshotsCache
    sw,         \* the AccountSwitcher method invocation in flight
    saved,      \* history: email -> the text of the row when its snapshot was read
    accounts,   \* AccountManager's registry: the emails as they were typed
    files,      \* the files the extension has written, by what they hold
    ex,         \* the SidebarProvider export or import in flight
    timers,     \* the timers of activate() and of the webview that are yet to fire
    chains,     \* the callbacks of timers and commands in flight, one per slot
    dec,        \* the TLV decoder: the buffer at hand and the last call on it
    ui,         \* the command or webview message being handled
    flags,      \* accounts.json: email -> tier, isActive and refreshLocked, for the
                \* accounts whose flags were written since addAccount
    quotas,     \* SidebarProvider.quotaCache: email -> the quota last kept
    aa          \* AutoAcceptService: _enabled, pollTimer, connections, and the
                \* timers, start() calls, polls and WebSockets in flight

tokenVars == <<now, secrets, db, calls, last, nOps>>
switcherVars == <<authStatusRow, snapshotsSecret, snapshotsCache, sw, saved>>
sidebarVars == <<accounts, files, ex>>
extensionVars == <<timers, chains>>
decoderVars == <<dec>>
panelVars == <<ui, flags, quotas>>
autoVars == <<aa>>
vars == <<tokenVars, switcherVars, sidebarVars, extensionVars, decoderVars, panelVars, autoVars>>

-----------------------------------------------------------------------------
(* Bounds of the model. *)

MaxOps == 2
MaxSwitcherOps == 3
MaxChainOps == 2
MaxSidebarOps == 2
MaxPanelOps == 3
MaxAutoOps == 3
MaxPolls == 1
MaxFields == 2
MaxMatches == 3
MaxRawLen == 3
Horizon == 60000

-----------------------------------------------------------------------------
(* Values. *)

\* JavaScript's undefined and null.
UNDEF == "<undefined>"
NULL == "<null>"
\* A key that has no row in ItemTable (stmt.step() is false), and a row whose
\* value is the base64 text of the given bytes.
NoRow == [kind |-> "norow"]
Blob(bytes) == [kind |-> "blob", bytes |-> bytes]
\* A value of antigravityAuthStatus that JSON.parse rejects.
Garbage == [kind |-> "garbage"]
\* getToken's catch returns the stored JSON text itself when it is longer than 10.
JsonText == "<stored-json-text>"

\* getToken: 5 * 60 * 1000
SKEW_MS == 300000
\* captureCurrentToken, tryAutoRecovery: 55 * 60 * 1000
TTL_MS == 3300000

\* An empty slot of SecretStorage (secrets.get resolves to undefined).
NoValue == [kind |-> "none"]
\* A stored string that is not JSON: what saveToken stores on import.
RawValue(text) == [kind |-> "raw", text |-> text]
\* JSON.stringify(credential) of a StoredCredential; a member that is undefined
\* is left out by JSON.stringify and reads back as undefined.
CredValue(accessToken, refreshToken, expiresAt, email, createdAt) ==
    [kind |-> "cred", accessToken |-> accessToken, refreshToken |-> refreshToken,
     expiresAt |-> expiresAt, email |-> email, createdAt |-> createdAt]

\* JavaScript's !x for the strings of the model.
Falsy(x) == x \in {UNDEF, NULL, ""}

\* String.prototype.toLowerCase on the emails of the model.
ToLowerCase(s) ==
    CASE s = "A@X.com" -> "a@x.com"
      [] s = "B@X.com" -> "b@x.com"
      [] OTHER -> s

\* The emails callers pass, the emails the host's identity record may hold,
\* and the SecretStorage keys these lead to.
ArgEmails == {"a@x.com", "A@X.com"}
HostEmails == {"a@x.com", "A@X.com", "b@x.com"}
Keys == ArgEmails \cup HostEmails \cup {ToLowerCase(e) : e \in HostEmails}

Min(a, b) == IF a < b THEN a ELSE b

-----------------------------------------------------------------------------
(* The TLV decoder. A result whose ok is FALSE is a thrown Error, with its *)
(* message.                                                               *)

Throw(message) == [ok |-> FALSE, message |-> message]

Pow2(n) == 2 ^ n

RECURSIVE ReadVarintLoop(_, _, _, _)
ReadVarintLoop(data, pos, result, shift) ==
    IF pos >= Len(data)
    THEN Throw("Incomplete varint")
    ELSE LET byte == data[pos + 1]
             r == result + (byte % 128) * Pow2(shift)
         IN  IF byte \div 128 = 0
             THEN [ok |-> TRUE, value |-> r, next |-> pos + 1]
             ELSE ReadVarintLoop(data, pos + 1, r, shift + 7)

\* A readVarint that takes the 7-bit groups most significant first.
RECURSIVE ReadVarintMsbLoop(_, _, _)
ReadVarintMsbLoop(data, pos, result) ==
    IF pos >= Len(data)
    THEN Throw("Incomplete varint")
    ELSE LET r == result * 128 + (data[pos + 1] % 128)
         IN  IF data[pos + 1] \div 128 = 0
             THEN [ok |-> TRUE, value |-> r, next |-> pos + 1]
             ELSE ReadVarintMsbLoop(data, pos + 1, r)

readVarintMsbFirst(data, offset) == ReadVarintMsbLoop(data, offset, 0)

readVarint(data, offset) == ReadVarintLoop(data, offset, 0, 0)

\* A skipField that steps over the length of a length-delimited field and
\* not over its payload.
skipFieldLengthOnly(data, offset, wireType) ==
    CASE wireType \in {0, 2} ->
            LET v == readVarint(data, offset)
            IN  IF v.ok THEN [ok |-> TRUE, next |-> v.next] ELSE v
      [] wireType = 1 -> [ok |-> TRUE, next |-> offset + 8]
      [] wireType = 5 -> [ok |-> TRUE, next |-> offset + 4]
      [] OTHER -> Throw("Unknown wire type")

skipField(data, offset, wireType) ==
    CASE wireType = 0 ->
            LET v == readVarint(data, offset)
            IN  IF v.ok THEN [ok |-> TRUE, next |-> v.next] ELSE v
      [] wireType = 1 -> [ok |-> TRUE, next |-> offset + 8]
      [] wireType = 2 ->
            LET v == readVarint(data, offset)
            IN  IF v.ok THEN [ok |-> TRUE, next |-> v.next + v.value] ELSE v
      [] wireType = 5 -> [ok |-> TRUE, next |-> offset + 4]
      [] OTHER -> Throw("Unknown wire type")

\* A subarray that takes the byte at end as well.
SubarrayInclusive(data, start, end) ==
    SubSeq(data, Min(start, Len(data)) + 1, Min(end + 1, Len(data)))

\* Buffer.subarray(start, end): both ends are clamped to the buffer.
Subarray(data, start, end) ==
    SubSeq(data, Min(start, Len(data)) + 1, Min(end, Len(data)))

\* A findField that takes the first field numbered targetField, whatever
\* its wire type.
RECURSIVE FindFieldAnyWireLoop(_, _, _)
FindFieldAnyWireLoop(data, targetField, offset) ==
    IF offset >= Len(data)
    THEN [kind |-> "absent"]
    ELSE LET t == readVarint(data, offset)
         IN  IF ~t.ok
             THEN [kind |-> "absent"]
             ELSE IF t.value \div 8 = targetField
                  THEN LET l == readVarint(data, t.next)
                       IN  IF ~l.ok
                           THEN [kind |-> "throw"]
                           ELSE [kind |-> "found",
                                 payload |-> Subarray(data, l.next, l.next + l.value)]
                  ELSE LET s == skipField(data, t.next, t.value % 8)
                       IN  IF ~s.ok
                           THEN [kind |-> "throw"]
                           ELSE FindFieldAnyWireLoop(data, targetField, s.next)

findFieldAnyWire(data, targetField) == FindFieldAnyWireLoop(data, targetField, 0)

\* findField: kind "found" with the payload, "absent" (undefined), or "throw".
RECURSIVE FindFieldLoop(_, _, _)
FindFieldLoop(data, targetField, offset) ==
    IF offset >= Len(data)
    THEN [kind |-> "absent"]
    ELSE LET t == readVarint(data, offset)
         IN  IF ~t.ok
             THEN [kind |-> "absent"]
             ELSE LET wireType == t.value % 8
                      fieldNum == t.value \div 8
                  IN  IF fieldNum = targetField /\ wireType = 2
                      THEN LET l == readVarint(data, t.next)
                           IN  IF ~l.ok
                               THEN [kind |-> "throw"]
                               ELSE [kind |-> "found",
                                     payload |-> Subarray(data, l.next, l.next + l.value)]
                      ELSE LET s == skipField(data, t.next, wireType)
                           IN  IF ~s.ok
                               THEN [kind |-> "throw"]
                               ELSE FindFieldLoop(data, targetField, s.next)

findField(data, targetField) == FindFieldLoop(data, targetField, 0)

\* Buffer.toString() on the bytes the model's blobs hold (ASCII letters and digits).
Chr(b) ==
    CASE b = 49 -> "1"
      [] b = 50 -> "2"
      [] b = 65 -> "A"
      [] b = 82 -> "R"
      [] b = 84 -> "T"
      [] OTHER -> "?"

RECURSIVE BufferToString(_)
BufferToString(bytes) ==
    IF bytes = <<>> THEN "" ELSE Chr(Head(bytes)) \o BufferToString(Tail(bytes))

RECURSIVE ParseLoop(_, _, _)
ParseLoop(data, offset, info) ==
    IF offset >= Len(data)
    THEN info
    ELSE LET t == readVarint(data, offset)
         IN  IF ~t.ok
             THEN info
             ELSE LET wireType == t.value % 8
                      fieldNum == t.value \div 8
                  IN  IF wireType = 2
                      THEN LET l == readVarint(data, t.next)
                           IN  IF ~l.ok
                               THEN info
                               ELSE LET value == Subarray(data, l.next, l.next + l.value)
                                        next == l.next + l.value
                                    IN  ParseLoop(data, next,
                                          CASE fieldNum = 1 ->
                                                 [info EXCEPT !.accessToken = BufferToString(value)]
                                            [] fieldNum = 3 ->
                                                 [info EXCEPT !.refreshToken = BufferToString(value)]
                                            [] OTHER -> info)
                      ELSE LET s == skipField(data, t.next, wireType)
                           IN  IF ~s.ok THEN info ELSE ParseLoop(data, s.next, info)

\* A parseOAuthTokenInfo without its try/catch: an error inside the loop
\* leaves nothing of what was decoded.
RECURSIVE ParseLoopUncaught(_, _, _)
ParseLoopUncaught(data, offset, info) ==
    LET nothing == [accessToken |-> UNDEF, refreshToken |-> UNDEF]
    IN  IF offset >= Len(data)
        THEN info
        ELSE LET t == readVarint(data, offset)
             IN  IF ~t.ok
                 THEN nothing
                 ELSE LET wireType == t.value % 8
                          fieldNum == t.value \div 8
                          l == readVarint(data, t.next)
                          s == skipField(data, t.next, wireType)
                      IN  IF ~s.ok
                          THEN nothing
                          ELSE ParseLoopUncaught(data, s.next,
                                 IF wireType # 2 THEN info
                                 ELSE LET value == Subarray(data, l.next, l.next + l.value)
                                      IN  CASE fieldNum = 1 ->
                                                 [info EXCEPT !.accessToken = BufferToString(value)]
                                            [] fieldNum = 3 ->
                                                 [info EXCEPT !.refreshToken = BufferToString(value)]
                                            [] OTHER -> info)

parseOAuthTokenInfoUncaught(data) ==
    ParseLoopUncaught(data, 0, [accessToken |-> UNDEF, refreshToken |-> UNDEF])

parseOAuthTokenInfo(data) ==
    ParseLoop(data, 0, [accessToken |-> UNDEF, refreshToken |-> UNDEF])

-----------------------------------------------------------------------------
(* The host's state.vscdb as the token service reads it. *)

\* Tags of length-delimited fields 1, 3 and 6, and of field 1 with wire type 3.
Tag(fieldNum, wireType) == fieldNum * 8 + wireType

\* An OAuthTokenInfo message: access token "A1" in field 1, then the given
\* refresh-token bytes in field 3.
InnerA1 == <<Tag(1, 2), 2, 65, 49>>
InnerA1R1 == InnerA1 \o <<Tag(3, 2), 2, 82, 49>>
InnerA2R2 == <<Tag(1, 2), 2, 65, 50, Tag(3, 2), 2, 82, 50>>

\* Values of the row antigravityUnifiedStateSync.oauthToken, base64-decoded:
\* the wrapper is field 1 of the unified schema.
OauthFull == <<Tag(1, 2), Len(InnerA1R1)>> \o InnerA1R1
OauthNoRefresh == <<Tag(1, 2), Len(InnerA1)>> \o InnerA1
\* A tag whose length varint is missing, and a field of wire type 3.
OauthTruncated == <<Tag(1, 2)>>
OauthBadWire == <<Tag(2, 3), 0>> \o OauthFull

\* Values of the row jetskiStateSync.agentManagerInitState, base64-decoded:
\* the wrapper is field 6 of the default schema, after an unrelated varint field.
StateFull == <<Tag(1, 0), 7, Tag(6, 2), Len(InnerA2R2)>> \o InnerA2R2

\* Values of the row antigravityAuthStatus: no row, text that is not JSON, or a
\* JSON object whose email and apiKey members may be missing.
AuthJson(email, apiKey) == [kind |-> "json", email |-> email, apiKey |-> apiKey]

\* The file's bytes as the scan of extractTokensFromDb sees them: the matches of
\* its regular expressions in file order, each with the pattern that matches
\* there and the token the match yields.  "base64" is an eWEyOS... run that
\* decodes to a ya29 token longer than 100, "base64short" one that decodes to a
\* shorter token, "direct" a ya29 token of 100 or more characters, "refresh1",
\* "refresh2" and "refresh3" the three refresh-token patterns.
Match(pattern, token) == [pattern |-> pattern, token |-> token]

\* getAuthStatus: null, or {email, apiKey} as JSON.parse gives them.
getAuthStatus(d) ==
    IF d.authStatus.kind # "json"
    THEN [isNull |-> TRUE]
    ELSE [isNull |-> FALSE, email |-> d.authStatus.email, apiKey |-> d.authStatus.apiKey]

\* getRefreshToken: the refresh token of the unified oauthToken row, or null.
getRefreshToken(d) ==
    IF d.oauthToken = NoRow
    THEN NULL
    ELSE LET oauthField == findField(d.oauthToken.bytes, 1)
         IN  IF oauthField.kind # "found"
             THEN NULL
             ELSE LET tokenInfo == parseOAuthTokenInfo(oauthField.payload)
                  IN  IF Falsy(tokenInfo.refreshToken) THEN NULL ELSE tokenInfo.refreshToken

\* extractTokensWithProtobuf: null (isNull), or the fields decoded from field 6.
extractTokensWithProtobuf(d) ==
    IF d.stateValue = NoRow
    THEN [isNull |-> TRUE]
    ELSE LET oauthField == findField(d.stateValue.bytes, 6)
         IN  IF oauthField.kind # "found"
             THEN [isNull |-> TRUE]
             ELSE LET tokenInfo == parseOAuthTokenInfo(oauthField.payload)
                  IN  [isNull |-> FALSE, accessToken |-> tokenInfo.accessToken,
                       refreshToken |-> tokenInfo.refreshToken]

\* The offsets of the matches extractTokensFromDb collects as access tokens and
\* as refresh tokens.
AccessPatterns == {"base64", "direct"}
RefreshPatterns == {"refresh1", "refresh2", "refresh3"}

MatchOffsets(file, patterns) == {i \in 1..Len(file) : file[i].pattern \in patterns}

MaxOf(S) == CHOOSE x \in S : \A y \in S : y <= x

\* The token of the last element collected, without the sort: the matches of
\* one pattern after those of the pattern searched before it.
CollectRank(pattern) ==
    CASE pattern \in {"base64", "refresh1"} -> 1
      [] pattern \in {"direct", "refresh2"} -> 2
      [] OTHER -> 3

LastCollected(file, patterns) ==
    LET offs == MatchOffsets(file, patterns)
        top == CHOOSE i \in offs : \A j \in offs :
                   \/ CollectRank(file[j].pattern) < CollectRank(file[i].pattern)
                   \/ /\ CollectRank(file[j].pattern) = CollectRank(file[i].pattern)
                      /\ j <= i
    IN  file[top].token

\* The token of the last element after the sort by offset.
LastMatch(file, patterns) == file[MaxOf(MatchOffsets(file, patterns))].token

\* extractTokensFromDb: null, or the last access-token match with the last
\* refresh-token match (undefined when there is none).
extractTokensFromDb(d) ==
    IF MatchOffsets(d.file, AccessPatterns) = {}
    THEN [isNull |-> TRUE]
    ELSE [isNull |-> FALSE,
          accessToken |-> LastMatch(d.file, AccessPatterns),
          refreshToken |-> IF MatchOffsets(d.file, RefreshPatterns) = {}
                           THEN UNDEF
                           ELSE LastMatch(d.file, RefreshPatterns)]

Host(authStatus, oauthToken, stateValue, file) ==
    [authStatus |-> authStatus, oauthToken |-> oauthToken, stateValue |-> stateValue,
     file |-> file]

\* The host logged out with nothing left in the file.
LoggedOut == Host(NoRow, NoRow, NoRow, <<>>)
\* The host logged in as a@x.com, with older tokens still in the file.
LoggedIn ==
    Host(AuthJson("a@x.com", "A1"), Blob(OauthFull), Blob(StateFull),
         <<Match("direct", "A3"), Match("refresh2", "R3"), Match("base64", "A4")>>)

\* The states of the host the model draws from: every value of every row and
\* of the file occurs in one of them.
OtherAccount ==
    Host(AuthJson("b@x.com", "A2"), Blob(OauthNoRefresh), NoRow, <<Match("direct", "A3")>>)

HostStates ==
    {LoggedOut, LoggedIn, OtherAccount,
     Host(AuthJson("A@X.com", "A1"), Blob(OauthTruncated), Blob(StateFull),
          <<Match("refresh1", "R3")>>),
     Host(AuthJson(UNDEF, "A1"), Blob(OauthBadWire), NoRow, <<Match("direct", "A3")>>),
     Host(AuthJson("a@x.com", UNDEF), Blob(OauthFull), NoRow, <<>>),
     Host(Garbage, NoRow, Blob(StateFull), <<Match("base64short", "A3"), Match("refresh3", "R3")>>)}

-----------------------------------------------------------------------------
(* SecretStorage and the invocations in flight. *)

Procs == {1, 2}

\* secrets.get resolves to undefined or "": `!stored`.
StoredFalsy(v) == v.kind = "none" \/ (v.kind = "raw" /\ v.text = "")

\* Texts saveToken is given on import: an exported access token, and a text of
\* at most 10 characters.
RawTexts == {"ya29.rawtoken", "short"}

\* expires_in (seconds) of the token endpoint's answers, and the access tokens
\* it issues.
ExpiresInChoices == {3600, 300}
IssuedTokens == {"A5"}

\* What the fetch of refreshAccessToken ends in: a rejected promise, a
\* response that is not ok, or an ok response whose body is read as
\* {access_token, expires_in}.  The body is cast, not checked: access_token is
\* undefined when the body has none.
FetchOutcomes ==
    {[kind |-> "neterr"], [kind |-> "status"]}
    \cup [kind : {"ok"}, access_token : IssuedTokens \cup {UNDEF},
                        expires_in : ExpiresInChoices]

\* How long the fetch takes, in milliseconds of Date.now().
FetchDelays == {0, 1}

Idle == [pc |-> "idle"]

\* No such getToken invocation.
NoLast == [email |-> UNDEF]

\* A new invocation: the method's locals (credential, pending, refreshed, key,
\* result, ok), and beside them a record of what the invocation did and saw:
\*   nRefresh, nFetch, nRecover, nStore, nAwait: how often it entered
\*     refreshAccessToken, called fetch, entered tryAutoRecovery, called
\*     secrets.store, and resumed from an await on I/O;
\*   before, first: SecretStorage when it started, and the value its first
\*     secrets.get resolved to;
\*   checkNow: Date.now() at its expiry check (-1 before);
\*   response, fetchNow: the token endpoint's answer and Date.now() after it;
\*   extracted, recoverNow: what extractTokensFromDb returned to
\*     tryAutoRecovery and Date.now() there;
\*   auth: what getAuthStatus returned;
\*   warned, errorShown: showWarningMessage / showErrorMessage was called.
NoAnswer == [kind |-> "none"]
NoTokens == [isNull |-> TRUE]

NewCall(op, email) ==
    [op |-> op, pc |-> "start", email |-> email,
     credential |-> NoValue, pending |-> NoValue,
     refreshed |-> UNDEF, key |-> email, result |-> UNDEF, ok |-> FALSE,
     nRefresh |-> 0, nFetch |-> 0, nRecover |-> 0, nStore |-> 0, nAwait |-> 0,
     refreshOk |-> FALSE, recovered |-> FALSE,
     before |-> secrets, first |-> NoValue, checkNow |-> -1,
     response |-> NoAnswer, fetchNow |-> -1,
     extracted |-> NoTokens, recoverNow |-> -1, auth |-> [isNull |-> TRUE],
     warned |-> FALSE, errorShown |-> FALSE]

Done(c, result) == [c EXCEPT !.pc = "done", !.result = result]

AllIdle == \A p \in Procs : calls[p].pc = "idle"

\* A recovery that keeps the refresh token of the record it replaces when the
\* scan found none.
TryAutoRecoveryMerging(c, storePc, onFail, t) ==
    LET tokens == extractTokensFromDb(db)
        old == secrets[c.email]
        kept == IF Falsy(tokens.refreshToken) /\ old.kind = "cred"
                THEN old.refreshToken ELSE tokens.refreshToken
    IN  IF tokens.isNull
        THEN [onFail EXCEPT !.nRecover = @ + 1, !.recoverNow = t]
        ELSE [c EXCEPT !.pc = storePc, !.nRecover = @ + 1,
                       !.extracted = tokens, !.recoverNow = t,
                       !.pending = CredValue(tokens.accessToken, kept,
                                             t + TTL_MS, c.email, t)]

\* tryAutoRecovery up to its await on secrets.store, run when Date.now() is t:
\* the scan of the file, and the credential built from it.  onFail is the
\* invocation when nothing is found.
TryAutoRecovery(c, storePc, onFail, t) ==
    LET tokens == extractTokensFromDb(db)
    IN  IF tokens.isNull
        THEN [onFail EXCEPT !.nRecover = @ + 1, !.recoverNow = t]
        ELSE [c EXCEPT !.pc = storePc, !.nRecover = @ + 1,
                       !.extracted = tokens, !.recoverNow = t,
                       !.pending = CredValue(tokens.accessToken, tokens.refreshToken,
                                              t + TTL_MS, c.email, t)]

\* A getToken that returns the stale token at once when the refresh failed.
AfterRefreshFailedNoRecovery(c, t) == Done(c, c.credential.accessToken)

\* A getToken that calls the endpoint a second time before it gives up.
AfterRefreshFailedRetry(c, t) ==
    IF c.nFetch = 1
    THEN [c EXCEPT !.pc = "gt_fetch", !.nFetch = @ + 1]
    ELSE TryAutoRecovery(c, "gt_rec2_store", Done(c, c.credential.accessToken), t)

\* getToken after refreshAccessToken returned null: recovery, else the stale token.
AfterRefreshFailed(c, t) ==
    TryAutoRecovery(c, "gt_rec2_store", Done(c, c.credential.accessToken), t)

\* A getToken that refreshes on every call.
PastThresholdAlways(credential) == TRUE

\* A getToken that refreshes from the threshold itself on (>= for >).
PastThresholdFromEquality(credential) == now >= credential.expiresAt - SKEW_MS

\* now is past the refresh threshold of a credential.
PastThreshold(credential) == now > credential.expiresAt - SKEW_MS

\* getToken from `if (!stored) return null` to its next await.
AfterStored(c0, v) ==
    LET c == c0
    IN  CASE StoredFalsy(v) -> Done(c, NULL)
          [] v.kind = "raw" ->
                Done(c, IF Len(v.text) > 10 THEN v.text ELSE NULL)
          [] OTHER ->
                LET cc == [c EXCEPT !.credential = v, !.checkNow = now]
                IN  IF PastThreshold(v)
                    THEN LET cr == [cc EXCEPT !.nRefresh = @ + 1]
                         IN  IF Falsy(v.refreshToken)
                             THEN AfterRefreshFailed(cr, now)
                             ELSE [cr EXCEPT !.pc = "gt_fetch", !.nFetch = @ + 1]
                    ELSE Done(cc, v.accessToken)

\* A refresh that takes expires_in for milliseconds.
RefreshedInMillis(credential, answer, t) ==
    [credential EXCEPT !.accessToken = answer.access_token,
                       !.expiresAt = t + answer.expires_in]

\* The credential getToken stores after a refresh: the stored one with the
\* access token of the answer and expiresAt = Date.now() + expires_in * 1000.
Refreshed(credential, answer, t) ==
    [credential EXCEPT !.accessToken = answer.access_token,
                       !.expiresAt = t + answer.expires_in * 1000]

\* The invocation in slot p goes on as c, resumed from an await on I/O.
SetCall(p, c) == calls' = [calls EXCEPT ![p] = [c EXCEPT !.nAwait = @ + 1]]

\* secrets.store / secrets.delete.  A write under a key ends what `last`
\* remembers of that key.
Store(key, value) ==
    /\ secrets' = [secrets EXCEPT ![key] = value]
    /\ last' = IF last.email = key THEN NoLast ELSE last

-----------------------------------------------------------------------------
(* getToken(email) *)

GetTokenStart(p, email) ==
    /\ calls[p].pc = "idle"
    /\ nOps < MaxOps
    /\ nOps' = nOps + 1
    /\ calls' = [calls EXCEPT ![p] = [NewCall("getToken", email) EXCEPT !.pc = "gt_get"]]
    /\ UNCHANGED <<switcherVars, sidebarVars, extensionVars, decoderVars, autoVars, panelVars, now, secrets, db, last>>

\* A getToken that returns null at once when there is no record.
GetTokenGetNoRecovery(p) ==
    LET c == calls[p]
        v == secrets[c.email]
        c1 == [c EXCEPT !.first = v]
    IN  /\ c.pc = "gt_get"
        /\ SetCall(p, IF StoredFalsy(v) THEN Done(c1, NULL) ELSE AfterStored(c1, v))
        /\ UNCHANGED <<switcherVars, sidebarVars, extensionVars, decoderVars, autoVars, panelVars, now, secrets, db, nOps, last>>

\* `stored = await this.secrets.get(...)`, then recovery when there is none.
GetTokenGet(p) ==
    LET c == calls[p]
        v == secrets[c.email]
        c1 == [c EXCEPT !.first = v]
    IN  /\ c.pc = "gt_get"
        /\ SetCall(p, IF StoredFalsy(v)
                      THEN TryAutoRecovery(c1, "gt_rec1_store", Done(c1, NULL), now)
                      ELSE AfterStored(c1, v))
        /\ UNCHANGED <<switcherVars, sidebarVars, extensionVars, decoderVars, autoVars, panelVars, now, secrets, db, nOps, last>>

\* tryAutoRecovery's `await this.secrets.store(...)`, called for a missing record.
GetTokenRecoverStore1(p) ==
    LET c == calls[p]
    IN  /\ c.pc = "gt_rec1_store"
        /\ Store(c.email, c.pending)
        /\ SetCall(p, [c EXCEPT !.pc = "gt_get2", !.nStore = @ + 1,
                                !.recovered = TRUE])
        /\ UNCHANGED <<switcherVars, sidebarVars, extensionVars, decoderVars, autoVars, panelVars, now, db, nOps>>

\* `stored = await this.secrets.get(...)` after that recovery.
GetTokenGet2(p) ==
    LET c == calls[p]
    IN  /\ c.pc = "gt_get2"
        /\ SetCall(p, AfterStored(c, secrets[c.email]))
        /\ UNCHANGED <<switcherVars, sidebarVars, extensionVars, decoderVars, autoVars, panelVars, now, secrets, db, nOps, last>>

\* refreshAccessToken from the end of its fetch, which took delay milliseconds.
GetTokenFetchDone(p, outcome, delay) ==
    LET c == calls[p]
    IN  /\ c.pc = "gt_fetch"
        /\ now' = now + delay
        /\ SetCall(p,
             IF outcome.kind = "ok"
             THEN [c EXCEPT !.pc = "gt_ref_store", !.refreshOk = TRUE,
                            !.response = outcome, !.fetchNow = now + delay,
                            !.refreshed = outcome.access_token,
                            !.credential = Refreshed(c.credential, outcome, now + delay)]
             ELSE AfterRefreshFailed([c EXCEPT !.response = outcome, !.fetchNow = now + delay],
                                     now + delay))
        /\ UNCHANGED <<switcherVars, sidebarVars, extensionVars, decoderVars, autoVars, panelVars, secrets, db, nOps, last>>

\* A store that writes the new access token into the record now stored.
GetTokenRefreshStoreMerging(p) ==
    LET c == calls[p]
        v == secrets[c.email]
    IN  /\ c.pc = "gt_ref_store"
        /\ Store(c.email, IF v.kind = "cred"
                          THEN [v EXCEPT !.accessToken = c.credential.accessToken]
                          ELSE c.credential)
        /\ SetCall(p, Done([c EXCEPT !.nStore = @ + 1], c.refreshed))
        /\ UNCHANGED <<switcherVars, sidebarVars, extensionVars, decoderVars, autoVars, panelVars, now, db, nOps>>

\* `await this.secrets.store(...)` of the refreshed credential.
GetTokenRefreshStore(p) ==
    LET c == calls[p]
    IN  /\ c.pc = "gt_ref_store"
        /\ Store(c.email, c.credential)
        /\ SetCall(p, Done([c EXCEPT !.nStore = @ + 1], c.refreshed))
        /\ UNCHANGED <<switcherVars, sidebarVars, extensionVars, decoderVars, autoVars, panelVars, now, db, nOps>>

\* tryAutoRecovery's `await this.secrets.store(...)`, called after a failed refresh.
GetTokenRecoverStore2(p) ==
    LET c == calls[p]
    IN  /\ c.pc = "gt_rec2_store"
        /\ Store(c.email, c.pending)
        /\ SetCall(p, [c EXCEPT !.pc = "gt_get3", !.nStore = @ + 1,
                                !.recovered = TRUE])
        /\ UNCHANGED <<switcherVars, sidebarVars, extensionVars, decoderVars, autoVars, panelVars, now, db, nOps>>

\* `newStored = await this.secrets.get(...)` after that recovery.
GetTokenGet3(p) ==
    LET c == calls[p]
        v == secrets[c.email]
    IN  /\ c.pc = "gt_get3"
        /\ SetCall(p, CASE StoredFalsy(v) -> Done(c, c.credential.accessToken)
                        [] v.kind = "raw" -> Done(c, JsonText)
                        [] OTHER -> Done(c, v.accessToken))
        /\ UNCHANGED <<switcherVars, sidebarVars, extensionVars, decoderVars, autoVars, panelVars, now, secrets, db, nOps, last>>

-----------------------------------------------------------------------------
(* captureCurrentToken(email) *)

CaptureStart(p, email) ==
    /\ calls[p].pc = "idle"
    /\ nOps < MaxOps
    /\ nOps' = nOps + 1
    /\ calls' = [calls EXCEPT ![p] = [NewCall("capture", email) EXCEPT !.pc = "cap_auth"]]
    /\ UNCHANGED <<switcherVars, sidebarVars, extensionVars, decoderVars, autoVars, panelVars, now, secrets, db, last>>

\* `authStatus = await this.getAuthStatus()` and the two checks that follow.
CaptureAuth(p) ==
    LET c == calls[p]
        authStatus == getAuthStatus(db)
        currentEmail == IF authStatus.email = UNDEF THEN UNDEF
                        ELSE ToLowerCase(authStatus.email)
    IN  /\ c.pc = "cap_auth"
        /\ SetCall(p,
             IF authStatus.isNull
             THEN [c EXCEPT !.pc = "done", !.ok = FALSE, !.errorShown = TRUE]
             ELSE IF Falsy(currentEmail) \/ Falsy(authStatus.apiKey)
                  THEN [c EXCEPT !.pc = "done", !.ok = FALSE, !.errorShown = TRUE,
                                 !.auth = authStatus]
                  ELSE [c EXCEPT !.pc = "cap_refresh", !.key = currentEmail,
                                 !.auth = authStatus, !.refreshed = authStatus.apiKey])
        /\ UNCHANGED <<switcherVars, sidebarVars, extensionVars, decoderVars, autoVars, panelVars, now, secrets, db, nOps, last>>

\* A capture that falls back on the scan of the file for its refresh token.
CaptureRefreshFromScan(p) ==
    LET c == calls[p]
        token == getRefreshToken(db)
        scan == extractTokensFromDb(db)
        refreshToken == IF ~Falsy(token) THEN token
                        ELSE IF scan.isNull THEN UNDEF ELSE scan.refreshToken
    IN  /\ c.pc = "cap_refresh"
        /\ SetCall(p, [c EXCEPT !.pc = "cap_store",
                                !.warned = (ToLowerCase(c.email) # c.key),
                                !.pending = CredValue(c.refreshed, refreshToken,
                                                      now + TTL_MS, c.key, now)])
        /\ UNCHANGED <<switcherVars, sidebarVars, extensionVars, decoderVars, autoVars, panelVars, now, secrets, db, nOps, last>>

\* `refreshToken = await this.getRefreshToken() || undefined`, the mismatch
\* warning and the credential.
CaptureRefresh(p) ==
    LET c == calls[p]
        token == getRefreshToken(db)
        refreshToken == IF Falsy(token) THEN UNDEF ELSE token
    IN  /\ c.pc = "cap_refresh"
        /\ SetCall(p, [c EXCEPT !.pc = "cap_store",
                                !.warned = (ToLowerCase(c.email) # c.key),
                                !.pending = CredValue(c.refreshed, refreshToken,
                                                      now + TTL_MS, c.key, now)])
        /\ UNCHANGED <<switcherVars, sidebarVars, extensionVars, decoderVars, autoVars, panelVars, now, secrets, db, nOps, last>>

\* A capture that stores under the email it was called with.
CaptureStoreUnderArgument(p) ==
    LET c == calls[p]
    IN  /\ c.pc = "cap_store"
        /\ Store(c.email, c.pending)
        /\ SetCall(p, [c EXCEPT !.pc = "done", !.ok = TRUE, !.nStore = @ + 1])
        /\ UNCHANGED <<switcherVars, sidebarVars, extensionVars, decoderVars, autoVars, panelVars, now, db, nOps>>

\* `await this.secrets.store(TOKEN_PREFIX + currentEmail, ...)`.
CaptureStore(p) ==
    LET c == calls[p]
    IN  /\ c.pc = "cap_store"
        /\ Store(c.key, c.pending)
        /\ SetCall(p, [c EXCEPT !.pc = "done", !.ok = TRUE, !.nStore = @ + 1])
        /\ UNCHANGED <<switcherVars, sidebarVars, extensionVars, decoderVars, autoVars, panelVars, now, db, nOps>>

-----------------------------------------------------------------------------
(* hasToken(email) *)

\* A hasToken that takes a token for valid until its expiresAt.
hasTokenUntilExpiry(v, t) ==
    /\ v.kind = "cred"
    /\ (t < v.expiresAt \/ ~Falsy(v.refreshToken))

\* hasToken on the stored value v when Date.now() is t.  A stored text that is
\* not JSON is either no longer than 10 or makes JSON.parse throw: false.
hasToken(v, t) ==
    /\ v.kind = "cred"
    /\ (t <= v.expiresAt - SKEW_MS \/ ~Falsy(v.refreshToken))

HasTokenStart(p, email) ==
    /\ calls[p].pc = "idle"
    /\ nOps < MaxOps
    /\ nOps' = nOps + 1
    /\ calls' = [calls EXCEPT ![p] = [NewCall("hasToken", email) EXCEPT !.pc = "ht_get"]]
    /\ UNCHANGED <<switcherVars, sidebarVars, extensionVars, decoderVars, autoVars, panelVars, now, secrets, db, last>>

\* `stored = await this.secrets.get(...)` and the rest of hasToken.
HasTokenGet(p) ==
    LET c == calls[p]
        v == secrets[c.email]
    IN  /\ c.pc = "ht_get"
        /\ SetCall(p, [c EXCEPT !.pc = "done", !.first = v, !.checkNow = now,
                                !.ok = hasToken(v, now)])
        /\ UNCHANGED <<switcherVars, sidebarVars, extensionVars, decoderVars, autoVars, panelVars, now, secrets, db, nOps, last>>

-----------------------------------------------------------------------------
(* deleteToken, saveToken, and the end of an invocation *)

DeleteToken(email) ==
    /\ nOps < MaxOps
    /\ nOps' = nOps + 1
    /\ Store(email, NoValue)
    /\ UNCHANGED <<switcherVars, sidebarVars, extensionVars, decoderVars, autoVars, panelVars, now, db, calls>>

SaveToken(email, tokenData) ==
    /\ nOps < MaxOps
    /\ nOps' = nOps + 1
    /\ Store(email, RawValue(tokenData))
    /\ UNCHANGED <<switcherVars, sidebarVars, extensionVars, decoderVars, autoVars, panelVars, now, db, calls>>

\* The caller takes the result of a finished invocation.
Return(p) ==
    LET c == calls[p]
    IN  /\ c.pc = "done"
        /\ calls' = [calls EXCEPT ![p] = Idle]
        /\ last' = IF /\ c.op = "getToken"
                      /\ c.first.kind = "cred"
                      /\ c.checkNow >= 0
                      /\ c.checkNow < c.first.expiresAt - SKEW_MS
                   THEN [email |-> c.email, result |-> c.result, checkNow |-> c.checkNow,
                         found |-> c.first]
                   ELSE NoLast
        /\ UNCHANGED <<switcherVars, sidebarVars, extensionVars, decoderVars, autoVars, panelVars, now, secrets, db, nOps>>

-----------------------------------------------------------------------------
(* The account switcher (account-switcher.ts).                             *)
(*                                                                         *)
(* A text, here, is a sequence of lexemes: a double quote, a single quote, *)
(* a blank, a line feed, a brace, a colon and a comma are lexemes of their *)
(* own and a run of other characters is one lexeme, so that two texts are  *)
(* equal byte for byte exactly when their sequences are equal.  The empty  *)
(* text stands for null as well: the code tests both with !authStatus.     *)

DQ == "\""
SQ == "'"
SP == " "
NL == "\n"

TextRow(text) == [kind |-> "text", text |-> text]

RECURSIVE Join(_)
Join(t) == IF t = <<>> THEN "" ELSE Head(t) \o Join(Tail(t))

\* String.prototype.trim
RECURSIVE TrimStart(_)
TrimStart(t) == IF t # <<>> /\ Head(t) \in {SP, NL} THEN TrimStart(Tail(t)) ELSE t

RECURSIVE TrimEnd(_)
TrimEnd(t) ==
    IF t # <<>> /\ t[Len(t)] \in {SP, NL} THEN TrimEnd(SubSeq(t, 1, Len(t) - 1)) ELSE t

Trim(t) == TrimEnd(TrimStart(t))

\* JSON.parse of a text, for the texts the model draws: an object of string
\* members without escapes, or a text that is no object.  A text that is no
\* object either throws or gives a value without members.
NotAnObject == [ok |-> FALSE]
NoMembers == [k \in {} |-> ""]

JsonString(t) ==
    IF t # <<>> /\ Head(t) = DQ /\ \E i \in 2..Len(t) : t[i] = DQ
    THEN LET i == CHOOSE j \in 2..Len(t) : t[j] = DQ /\ \A k \in 2..(j - 1) : t[k] # DQ
         IN  IF \E k \in 2..(i - 1) : t[k] = NL
             THEN NotAnObject
             ELSE [ok |-> TRUE, value |-> Join(SubSeq(t, 2, i - 1)),
                   rest |-> SubSeq(t, i + 1, Len(t))]
    ELSE NotAnObject

RECURSIVE JsonMembers(_, _)
JsonMembers(t, obj) ==
    LET k == JsonString(TrimStart(t))
    IN  IF ~k.ok THEN NotAnObject ELSE
        LET t1 == TrimStart(k.rest)
        IN  IF t1 = <<>> \/ Head(t1) # ":" THEN NotAnObject ELSE
            LET v == JsonString(TrimStart(Tail(t1)))
            IN  IF ~v.ok THEN NotAnObject ELSE
                LET t2 == TrimStart(v.rest)
                    obj2 == [x \in DOMAIN obj \cup {k.value} |->
                                IF x = k.value THEN v.value ELSE obj[x]]
                IN  IF t2 = <<>> THEN NotAnObject
                    ELSE IF Head(t2) = "," THEN JsonMembers(Tail(t2), obj2)
                    ELSE IF Head(t2) = "}" /\ TrimStart(Tail(t2)) = <<>>
                         THEN [ok |-> TRUE, obj |-> obj2]
                    ELSE NotAnObject

JsonParse(t) ==
    LET t0 == TrimStart(t)
    IN  IF t0 = <<>> \/ Head(t0) # "{" THEN NotAnObject
        ELSE LET t1 == TrimStart(Tail(t0))
             IN  IF t1 # <<>> /\ Head(t1) = "}" /\ TrimStart(Tail(t1)) = <<>>
                 THEN [ok |-> TRUE, obj |-> NoMembers]
                 ELSE JsonMembers(Tail(t0), NoMembers)

\* saveSnapshot: parsed.email || parsed.name || 'unknown', and 'unknown' when
\* JSON.parse throws.
SnapshotEmailEmailOnly(authStatus) ==
    LET parsed == JsonParse(authStatus)
    IN  IF parsed.ok /\ "email" \in DOMAIN parsed.obj /\ parsed.obj["email"] # ""
        THEN parsed.obj["email"]
        ELSE "unknown"

SnapshotEmail(authStatus) ==
    LET parsed == JsonParse(authStatus)
        member(k) == IF parsed.ok /\ k \in DOMAIN parsed.obj THEN parsed.obj[k] ELSE ""
    IN  IF member("email") # "" THEN member("email")
        ELSE IF member("name") # "" THEN member("name")
        ELSE "unknown"

\* updateAuthStatus: authStatus.replace(/'/g, "''")
RECURSIVE EscapeQuotes(_)
EscapeQuotes(t) ==
    IF t = <<>> THEN <<>>
    ELSE (IF Head(t) = SQ THEN <<SQ, SQ>> ELSE <<Head(t)>>) \o EscapeQuotes(Tail(t))

\* updateAuthStatus: the command line handed to exec.
DbPath == "state.vscdb"
UpdatePrefix == <<"UPDATE", SP, "ItemTable", SP, "SET", SP, "value=", SQ>>
UpdateSuffix == <<SQ, SP, "WHERE", SP, "key=", SQ, "antigravityAuthStatus", SQ>>

UpdateCommand(authStatus) ==
    <<"sqlite3", SP, DQ, DbPath, DQ, SP, DQ>>
        \o UpdatePrefix \o EscapeQuotes(authStatus) \o UpdateSuffix \o <<DQ>>

\* How the command line becomes the arguments of sqlite3.  The constructor
\* takes the path from APPDATA, so exec runs the line under cmd.exe and the
\* program's C runtime splits it: a double quote opens or closes a quoted
\* stretch and is dropped, a blank outside a quoted stretch ends an argument,
\* a single quote is an ordinary character.  (A POSIX shell splits the texts
\* drawn here in the same way; the texts hold no backslash and no two
\* adjacent double quotes, where the rules differ.)
RECURSIVE ArgvLoop(_, _, _, _, _)
ArgvLoop(t, inQuotes, started, word, args) ==
    IF t = <<>> THEN (IF started THEN Append(args, word) ELSE args)
    ELSE IF Head(t) = DQ THEN ArgvLoop(Tail(t), ~inQuotes, TRUE, word, args)
    ELSE IF Head(t) \in {SP, NL} /\ ~inQuotes
         THEN ArgvLoop(Tail(t), FALSE, FALSE, <<>>,
                       IF started THEN Append(args, word) ELSE args)
    ELSE ArgvLoop(Tail(t), inQuotes, TRUE, Append(word, Head(t)), args)

Argv(commandLine) == ArgvLoop(commandLine, FALSE, FALSE, <<>>, <<>>)

\* sqlite3 reading its SQL argument: the UPDATE statement with its string
\* literal, in which two single quotes stand for one; any other text drawn
\* here is no statement and sqlite3 ends with an error.
SqlError == [ok |-> FALSE]

RECURSIVE SqlLiteral(_, _)
SqlLiteral(t, value) ==
    IF t = <<>> THEN SqlError
    ELSE IF Head(t) # SQ THEN SqlLiteral(Tail(t), Append(value, Head(t)))
    ELSE IF Len(t) >= 2 /\ t[2] = SQ THEN SqlLiteral(Tail(Tail(t)), Append(value, SQ))
    ELSE IF t = UpdateSuffix THEN [ok |-> TRUE, value |-> value]
    ELSE SqlError

SqlUpdate(sql) ==
    IF Len(sql) > Len(UpdatePrefix) /\ SubSeq(sql, 1, Len(UpdatePrefix)) = UpdatePrefix
    THEN SqlLiteral(SubSeq(sql, Len(UpdatePrefix) + 1, Len(sql)), <<>>)
    ELSE SqlError

\* sqlite3 <db> <sql> ...: the arguments after the database are run in order
\* and the first error ends the program with a failure status.  An argument
\* that a blank has cut short is no statement.
Sqlite3(commandLine) ==
    LET argv == Argv(commandLine)
    IN  IF Len(argv) = 3 THEN SqlUpdate(argv[3]) ELSE SqlError

\* An AccountSnapshot, and the map of them by email.
AccountSnapshot(email, authStatus, savedAt) ==
    [email |-> email, authStatus |-> authStatus, savedAt |-> savedAt]

NoSnapshots == [k \in {} |-> AccountSnapshot("", <<>>, 0)]

SetSnapshot(snapshots, email, snapshot) ==
    [k \in DOMAIN snapshots \cup {email} |-> IF k = email THEN snapshot ELSE snapshots[k]]

DeleteKey(snapshots, email) == [k \in DOMAIN snapshots \ {email} |-> snapshots[k]]

\* What SecretStorage holds under SNAPSHOTS_KEY: JSON.stringify of the map,
\* which JSON.parse gives back member for member (strings and a number).
SnapshotsValue(snapshots) == [kind |-> "snapshots", map |-> snapshots]

\* snapshotsCache: null, or the map object that loadSnapshots hands to every
\* caller, who changes it in place.
NullCache == [isNull |-> TRUE]
Cache(snapshots) == [isNull |-> FALSE, map |-> snapshots]

\* loadSnapshots once the cache is empty: secrets.get and JSON.parse.
Loaded == IF snapshotsSecret.kind = "snapshots" THEN snapshotsSecret.map ELSE NoSnapshots

\* What loadSnapshots resolves to, and so what getSnapshots shows.
SnapshotMap == IF snapshotsCache.isNull THEN Loaded ELSE snapshotsCache.map

SwIdle == [pc |-> "idle"]

\* A new invocation.  nWrites counts the writes of the row, prompted and
\* reloaded what the user was shown and what was executed; before,
\* storedBefore, rowBefore, rowAtExec and rowAfter are history: the snapshot
\* map and what SecretStorage held when the invocation started, the row when
\* it started, the row just before and just after its sqlite3 ran.
NewSw(op, email) ==
    [op |-> op, pc |-> "start", email |-> email, authStatus |-> <<>>,
     found |-> FALSE, success |-> FALSE, ran |-> FALSE, result |-> FALSE,
     nWrites |-> 0, prompted |-> FALSE, reloaded |-> FALSE, errorShown |-> FALSE,
     savedAt |-> -1,
     before |-> SnapshotMap, storedBefore |-> snapshotsSecret,
     rowBefore |-> authStatusRow,
     rowAtExec |-> authStatusRow, rowAfter |-> authStatusRow]

SwDone(c, result) == [c EXCEPT !.pc = "done", !.result = result]

\* exec of sqlite3 either runs the program or fails before it does (sqlite3
\* is not on the PATH, the database is locked by the host).
ExecOutcomes == {"runs", "fails"}

\* readAuthStatus: the SELECT prints the value and a line feed, or nothing when
\* there is no row; stdout.trim() || null.
readAuthStatus(outcome) ==
    IF outcome = "fails" \/ authStatusRow.kind # "text" THEN <<>>
    ELSE Trim(authStatusRow.text \o <<NL>>)

-----------------------------------------------------------------------------
(* saveSnapshot() *)

SaveSnapshotStart ==
    /\ sw.pc = "idle"
    /\ nOps < MaxSwitcherOps
    /\ nOps' = nOps + 1
    /\ sw' = [NewSw("saveSnapshot", "") EXCEPT !.pc = "ss_read"]
    /\ UNCHANGED <<now, secrets, db, calls, last, sidebarVars, extensionVars, decoderVars, autoVars, panelVars,
                   authStatusRow, snapshotsSecret, snapshotsCache, saved>>

\* snapshots[email] = {...} on the object loadSnapshots gave: the cache itself.
SaveSnapshotAssign(c) ==
    /\ snapshotsCache' =
           Cache(SetSnapshot(SnapshotMap, c.email,
                             AccountSnapshot(c.email, c.authStatus, now)))
    /\ sw' = [c EXCEPT !.pc = "ss_store", !.savedAt = now]

\* readAuthStatus resolves.  With the cache filled, loadSnapshots resolves
\* without I/O and the assignment follows.
SaveSnapshotRead(outcome) ==
    LET authStatus == readAuthStatus(outcome)
        c == [sw EXCEPT !.authStatus = authStatus, !.email = SnapshotEmail(authStatus),
                        !.rowBefore = authStatusRow]
    IN  /\ sw.pc = "ss_read"
        /\ IF authStatus = <<>>
           THEN /\ sw' = SwDone(c, FALSE)
                /\ UNCHANGED <<snapshotsCache, saved>>
           ELSE /\ saved' = [k \in DOMAIN saved \cup {c.email} |->
                                IF k = c.email THEN authStatusRow.text ELSE saved[k]]
                /\ IF snapshotsCache.isNull
                   THEN /\ sw' = [c EXCEPT !.pc = "ss_load"]
                        /\ UNCHANGED snapshotsCache
                   ELSE SaveSnapshotAssign(c)
        /\ UNCHANGED <<tokenVars, sidebarVars, extensionVars, decoderVars, autoVars, panelVars, authStatusRow, snapshotsSecret>>

\* secrets.get resolves inside loadSnapshots.
SaveSnapshotLoad ==
    /\ sw.pc = "ss_load"
    /\ SaveSnapshotAssign(sw)
    /\ UNCHANGED <<tokenVars, sidebarVars, extensionVars, decoderVars, autoVars, panelVars, authStatusRow, snapshotsSecret, saved>>

\* secrets.store resolves inside saveSnapshots.
SaveSnapshotStore ==
    /\ sw.pc = "ss_store"
    /\ snapshotsSecret' = SnapshotsValue(snapshotsCache.map)
    /\ sw' = SwDone(sw, TRUE)
    /\ UNCHANGED <<tokenVars, sidebarVars, extensionVars, decoderVars, autoVars, panelVars, authStatusRow, snapshotsCache, saved>>

\* secrets.store rejects inside saveSnapshots, which catches the error and
\* logs it: saveSnapshot goes on as after a store, its assignment still in
\* the cache.
SaveSnapshotStoreFails ==
    /\ sw.pc = "ss_store"
    /\ sw' = SwDone(sw, TRUE)
    /\ UNCHANGED <<tokenVars, sidebarVars, extensionVars, decoderVars, autoVars, panelVars, authStatusRow, snapshotsSecret,
                   snapshotsCache, saved>>

-----------------------------------------------------------------------------
(* switchToAccount(email) *)

\* const snapshot = snapshots[email]; if (!snapshot) ...
SwitchLookupWriteAnyway(c, snapshots) ==
    sw' = [c EXCEPT !.pc = "sw_exec", !.found = c.email \in DOMAIN snapshots]

SwitchLookup(c, snapshots) ==
    IF c.email \in DOMAIN snapshots
    THEN sw' = [c EXCEPT !.pc = "sw_exec", !.found = TRUE,
                         !.authStatus = snapshots[c.email].authStatus]
    ELSE sw' = [SwDone(c, FALSE) EXCEPT !.errorShown = TRUE]

SwitchStart(email) ==
    /\ sw.pc = "idle"
    /\ nOps < MaxSwitcherOps
    /\ nOps' = nOps + 1
    /\ IF snapshotsCache.isNull
       THEN sw' = [NewSw("switchToAccount", email) EXCEPT !.pc = "sw_load"]
       ELSE SwitchLookup(NewSw("switchToAccount", email), snapshotsCache.map)
    /\ UNCHANGED <<now, secrets, db, calls, last, sidebarVars, extensionVars, decoderVars, autoVars, panelVars,
                   authStatusRow, snapshotsSecret, snapshotsCache, saved>>

SwitchLoad ==
    /\ sw.pc = "sw_load"
    /\ snapshotsCache' = Cache(Loaded)
    /\ SwitchLookup(sw, Loaded)
    /\ UNCHANGED <<tokenVars, sidebarVars, extensionVars, decoderVars, autoVars, panelVars, authStatusRow, snapshotsSecret, saved>>

\* updateAuthStatus resolves: false when exec reports an error, true
\* otherwise.  An UPDATE writes the row there is and makes none.
AfterUpdatePrompting(c, success) == [c EXCEPT !.pc = "sw_prompt", !.prompted = TRUE]

AfterUpdate(c, success) ==
    IF success THEN [c EXCEPT !.pc = "sw_prompt", !.prompted = TRUE] ELSE SwDone(c, FALSE)

SwitchExec(outcome) ==
    LET run == IF outcome = "runs" THEN Sqlite3(UpdateCommand(sw.authStatus)) ELSE SqlError
        writes == run.ok /\ authStatusRow.kind = "text"
        row == IF writes THEN TextRow(run.value) ELSE authStatusRow
        c == [sw EXCEPT !.ran = TRUE, !.success = run.ok, !.rowAtExec = authStatusRow,
                        !.rowAfter = row, !.nWrites = @ + (IF writes THEN 1 ELSE 0)]
    IN  /\ sw.pc = "sw_exec"
        /\ authStatusRow' = row
        /\ sw' = AfterUpdate(c, run.ok)
        /\ UNCHANGED <<tokenVars, sidebarVars, extensionVars, decoderVars, autoVars, panelVars, snapshotsSecret, snapshotsCache,
                       saved>>

\* showInformationMessage resolves: 'Reload', the other button, or undefined
\* when the message is dismissed.
Selections == {"Reload", "later", UNDEF}

SwitchPrompt(selection) ==
    /\ sw.pc = "sw_prompt"
    /\ sw' = [SwDone(sw, TRUE) EXCEPT !.reloaded = (selection = "Reload")]
    /\ UNCHANGED <<tokenVars, sidebarVars, extensionVars, decoderVars, autoVars, panelVars, authStatusRow, snapshotsSecret,
                   snapshotsCache, saved>>

-----------------------------------------------------------------------------
(* deleteSnapshot(email) *)

\* if (snapshots[email]) { delete snapshots[email]; ... } on the cache itself.
DeleteLookupAll(c, snapshots) ==
    IF c.email \in DOMAIN snapshots
    THEN /\ snapshotsCache' = Cache(NoSnapshots)
         /\ sw' = [c EXCEPT !.pc = "ds_store", !.found = TRUE]
    ELSE /\ snapshotsCache' = Cache(snapshots)
         /\ sw' = SwDone(c, FALSE)

DeleteLookup(c, snapshots) ==
    IF c.email \in DOMAIN snapshots
    THEN /\ snapshotsCache' = Cache(DeleteKey(snapshots, c.email))
         /\ sw' = [c EXCEPT !.pc = "ds_store", !.found = TRUE]
    ELSE /\ snapshotsCache' = Cache(snapshots)
         /\ sw' = SwDone(c, FALSE)

DeleteSnapshotStart(email) ==
    /\ sw.pc = "idle"
    /\ nOps < MaxSwitcherOps
    /\ nOps' = nOps + 1
    /\ IF snapshotsCache.isNull
       THEN /\ sw' = [NewSw("deleteSnapshot", email) EXCEPT !.pc = "ds_load"]
            /\ UNCHANGED snapshotsCache
       ELSE DeleteLookup(NewSw("deleteSnapshot", email), snapshotsCache.map)
    /\ UNCHANGED <<now, secrets, db, calls, last, sidebarVars, extensionVars, decoderVars, autoVars, panelVars,
                   authStatusRow, snapshotsSecret, saved>>

DeleteSnapshotLoad ==
    /\ sw.pc = "ds_load"
    /\ DeleteLookup(sw, Loaded)
    /\ UNCHANGED <<tokenVars, sidebarVars, extensionVars, decoderVars, autoVars, panelVars, authStatusRow, snapshotsSecret, saved>>

DeleteSnapshotStore ==
    /\ sw.pc = "ds_store"
    /\ snapshotsSecret' = SnapshotsValue(snapshotsCache.map)
    /\ sw' = SwDone(sw, TRUE)
    /\ UNCHANGED <<tokenVars, sidebarVars, extensionVars, decoderVars, autoVars, panelVars, authStatusRow, snapshotsCache, saved>>

\* secrets.store rejects inside saveSnapshots, called by deleteSnapshot.
DeleteSnapshotStoreFails ==
    /\ sw.pc = "ds_store"
    /\ sw' = SwDone(sw, TRUE)
    /\ UNCHANGED <<tokenVars, sidebarVars, extensionVars, decoderVars, autoVars, panelVars, authStatusRow, snapshotsSecret,
                   snapshotsCache, saved>>

-----------------------------------------------------------------------------
(* The command rerevolve.switchAccount and the webview message getSnapshots *)

\* getSnapshots() is an async method: what a caller holds that does not
\* await it is the promise, not the map the promise resolves to.
PromiseOf(value) == [isPromise |-> TRUE, value |-> value]

getSnapshots == PromiseOf(SnapshotMap)

\* Object.keys: the own enumerable properties; a promise has none.
ObjectKeys(x) == IF x.isPromise THEN {} ELSE DOMAIN x.value

\* What the command or the message handler did: the emails it offered or
\* posted, whether it warned of no snapshots, and beside them the emails
\* that were saved when it ran.
UiDone(op, emails, warned, selected) ==
    [pc |-> "done", op |-> op, emails |-> emails, warned |-> warned,
     selected |-> selected, saved |-> DOMAIN SnapshotMap]

\* The command rerevolve.switchAccount.  The getSnapshots() it calls loads
\* the cache when the cache is empty.
SwitchAccountCommand ==
    LET snapshots == getSnapshots
        emails == ObjectKeys(snapshots)
    IN  /\ sw.pc = "idle"
        /\ nOps < MaxSwitcherOps
        /\ nOps' = nOps + 1
        /\ snapshotsCache' = Cache(SnapshotMap)
        /\ IF emails = {}
           THEN /\ ui' = UiDone("switchAccount", emails, TRUE, UNDEF)
                /\ sw' = sw
           ELSE \E selected \in emails \cup {UNDEF} :
                    /\ ui' = UiDone("switchAccount", emails, FALSE, selected)
                    /\ IF selected = UNDEF
                       THEN sw' = sw
                       ELSE SwitchLookup(NewSw("switchToAccount", selected), SnapshotMap)
        /\ UNCHANGED <<now, secrets, db, calls, last, sidebarVars, extensionVars, decoderVars, autoVars,
                       flags, quotas, authStatusRow, snapshotsSecret, saved>>

\* The webview message getSnapshots: postMessage of snapshotList.
GetSnapshotsMessage ==
    LET snapshots == getSnapshots
    IN  /\ sw.pc = "idle"
        /\ nOps < MaxSwitcherOps
        /\ nOps' = nOps + 1
        /\ snapshotsCache' = Cache(SnapshotMap)
        /\ ui' = UiDone("getSnapshots", ObjectKeys(snapshots), FALSE, UNDEF)
        /\ UNCHANGED <<now, secrets, db, calls, last, sidebarVars, extensionVars, decoderVars, autoVars,
                       flags, quotas, authStatusRow, snapshotsSecret, sw, saved>>

\* The caller takes the result of a finished invocation.
SwReturn ==
    /\ sw.pc = "done"
    /\ sw' = SwIdle
    /\ UNCHANGED <<tokenVars, sidebarVars, extensionVars, decoderVars, autoVars, panelVars, authStatusRow, snapshotsSecret,
                   snapshotsCache, saved>>

\* The extension host restarts (a window reload among others): a new
\* AccountSwitcher with an empty cache; SecretStorage stays.
SwitcherRestart ==
    /\ sw.pc = "idle"
    /\ ~snapshotsCache.isNull
    /\ snapshotsCache' = NullCache
    /\ UNCHANGED <<tokenVars, sidebarVars, extensionVars, decoderVars, autoVars, panelVars, authStatusRow, snapshotsSecret, sw, saved>>

-----------------------------------------------------------------------------
(* The callbacks of extension.ts and of the sidebar that ask for tokens.   *)
(*                                                                         *)
(* A callback in flight is a chain: todo, the async functions it has yet   *)
(* to call and await in order, and steps, what is left of the function it  *)
(* is in.  Its getToken runs in the slot of calls that has its number.     *)
(* A callback with nothing left of either is over.                         *)

NoChain == [todo |-> <<>>, steps |-> <<>>]

\* getCurrentLoggedInEmail, for a state.vscdb whose only email is the one of
\* the antigravityAuthStatus row: that email in lower case, or null.
getCurrentLoggedInEmail(d) ==
    IF d.authStatus.kind = "json" /\ ~Falsy(d.authStatus.email)
    THEN ToLowerCase(d.authStatus.email)
    ELSE NULL

\* accounts.find(a => a.email.toLowerCase() === currentEmail.toLowerCase())
Registered(email) == \E a \in accounts : ToLowerCase(a) = ToLowerCase(email)

TokenStep(email) == [do |-> "getToken", email |-> email]
AwaitStep == [do |-> "await", email |-> ""]
CommandStep == [do |-> "refreshQuota", email |-> ""]

\* accountManager.getAccounts() in its order.
RECURSIVE AccountSteps(_)
AccountSteps(as) ==
    IF as = {} THEN <<>>
    ELSE LET a == CHOOSE x \in as : TRUE
         IN  <<TokenStep(a)>> \o AccountSteps(as \ {a})

\* What a function does once getCurrentLoggedInEmail has resolved:
\* refreshActiveOnly refreshes the active account when it is registered and
\* then executes rerevolve.refreshQuota without awaiting it; refreshAll
\* refreshes every account in turn; refreshActiveQuota asks for the token of
\* the active account.  (No account of the model is refreshLocked.)
StepsOf(f, current) ==
    IF f = "refreshAll" THEN AccountSteps(accounts)
    ELSE IF current = NULL THEN <<>>
    ELSE IF f = "refreshActiveOnly"
         THEN (IF Registered(current) THEN <<TokenStep(current)>> ELSE <<>>)
                  \o <<CommandStep>>
    ELSE <<TokenStep(current)>>

\* The timers: the two of activate() at 500 ms and 2000 ms, its 60 s interval
\* and the 30 s interval of the webview, with the callback of each.
STARTUP_ACTIVE_MS == 500
STARTUP_ALL_MS == 2000
STATUS_BAR_MS == 60000
WEBVIEW_MS == 30000

Timer(name, due) == [name |-> name, due |-> due]

Period(name) ==
    IF name = "statusBar" THEN STATUS_BAR_MS
    ELSE IF name = "webview" THEN WEBVIEW_MS
    ELSE 0

Callback(name) ==
    IF name = "startupActive" THEN <<"refreshActiveOnly", "refreshActiveQuota">>
    ELSE IF name = "startupAll" THEN <<"refreshAll", "refreshActiveQuota">>
    ELSE IF name = "statusBar" THEN <<"refreshActiveQuota">>
    ELSE <<"refreshActiveOnly">>

TimersAt(t) ==
    {Timer("startupActive", t + STARTUP_ACTIVE_MS), Timer("startupAll", t + STARTUP_ALL_MS),
     Timer("statusBar", t + STATUS_BAR_MS), Timer("webview", t + WEBVIEW_MS)}

\* The commands and messages a user sets off.
UserCommands == {"refreshAll", "refreshActiveQuota"}

Free(p) == chains[p] = NoChain /\ calls[p].pc = "idle"

\* A timer that is due fires; an interval is armed again.
TimerFire(p, timer) ==
    /\ timer \in timers
    /\ now >= timer.due
    /\ Free(p)
    /\ chains' = [chains EXCEPT ![p] = [todo |-> Callback(timer.name), steps |-> <<>>]]
    /\ timers' = (timers \ {timer}) \cup
                    (IF Period(timer.name) > 0 /\ timer.due + Period(timer.name) <= now + Horizon
                     THEN {Timer(timer.name, timer.due + Period(timer.name))}
                     ELSE {})
    /\ UNCHANGED <<tokenVars, switcherVars, sidebarVars, decoderVars, autoVars, panelVars>>

UserCommand(p, f) ==
    /\ Free(p)
    /\ nOps < MaxChainOps
    /\ chains' = [chains EXCEPT ![p] = [todo |-> <<f>>, steps |-> <<>>]]
    /\ UNCHANGED <<tokenVars, switcherVars, sidebarVars, decoderVars, autoVars, panelVars, timers>>

\* The callback calls its next function, which reads the active email.
ChainCall(p) ==
    LET ch == chains[p]
    IN  /\ ch.steps = <<>>
        /\ ch.todo # <<>>
        /\ calls[p].pc = "idle"
        /\ chains' = [chains EXCEPT ![p] =
                         [todo |-> Tail(ch.todo),
                          steps |-> StepsOf(Head(ch.todo), getCurrentLoggedInEmail(db))]]
        /\ UNCHANGED <<tokenVars, switcherVars, sidebarVars, decoderVars, autoVars, panelVars, timers>>

\* await this.tokenService.getToken(email)
ChainGetToken(p) ==
    LET ch == chains[p]
    IN  /\ ch.steps # <<>>
        /\ Head(ch.steps).do = "getToken"
        /\ calls[p].pc = "idle"
        /\ nOps < MaxChainOps
        /\ nOps' = nOps + 1
        /\ calls' = [calls EXCEPT ![p] =
                        [NewCall("getToken", Head(ch.steps).email) EXCEPT !.pc = "gt_get"]]
        /\ chains' = [chains EXCEPT ![p].steps = <<AwaitStep>> \o Tail(ch.steps)]
        /\ UNCHANGED <<now, secrets, db, last, switcherVars, sidebarVars, decoderVars, autoVars, panelVars, timers>>

\* getToken has resolved (and the quota request after it).
ChainResume(p) ==
    LET ch == chains[p]
    IN  /\ ch.steps # <<>>
        /\ Head(ch.steps).do = "await"
        /\ calls[p].pc = "done"
        /\ calls' = [calls EXCEPT ![p] = Idle]
        /\ chains' = [chains EXCEPT ![p].steps = Tail(ch.steps)]
        /\ UNCHANGED <<now, secrets, db, last, nOps, switcherVars, sidebarVars, decoderVars, autoVars, panelVars, timers>>

\* vscode.commands.executeCommand('rerevolve.refreshQuota'), not awaited: the
\* command's callback starts in another slot.
ChainCommand(p, q) ==
    LET ch == chains[p]
    IN  /\ ch.steps # <<>>
        /\ Head(ch.steps).do = "refreshQuota"
        /\ q # p
        /\ Free(q)
        /\ chains' = [chains EXCEPT ![p].steps = Tail(ch.steps),
                                    ![q] = [todo |-> <<"refreshActiveQuota">>, steps |-> <<>>]]
        /\ UNCHANGED <<tokenVars, switcherVars, sidebarVars, decoderVars, autoVars, panelVars, timers>>

\* Time passes to the moment the next timer is due, whether or not a call is
\* waiting for its I/O: no call of the extension has a timeout.
TimerTick(timer) ==
    /\ timer \in timers
    /\ timer.due > now
    /\ \A other \in timers : other.due > now => other.due >= timer.due
    /\ now' = timer.due
    /\ UNCHANGED <<secrets, db, calls, last, nOps, switcherVars, sidebarVars, extensionVars, decoderVars, autoVars, panelVars>>

-----------------------------------------------------------------------------
(* exportData and importData of the sidebar, and the files the extension   *)
(* writes.                                                                 *)
(*                                                                         *)
(* A file is its path and, of its JSON content, the names of its members,  *)
(* the emails of its accounts member and its tokens member, a map from     *)
(* email to token text.                                                    *)

NoFileTokens == [k \in {} |-> ""]

File(path, members, emails, tokens) ==
    [path |-> path, members |-> members, accounts |-> emails, tokens |-> tokens]

\* No exportData or importData in flight.
ExIdle == [pc |-> "idle"]

\* No file chosen.
NoFile == File("", {}, {}, NoFileTokens)

\* fs.writeFileSync(path, content): the file at that path is replaced.
WriteFile(fs, f) == {g \in fs : g.path # f.path} \cup {f}

\* What AccountManager.save writes: { accounts, lastUpdated }.
AccountsFile(as) ==
    File("accounts.json", {"accounts", "lastUpdated"}, as, NoFileTokens)

\* What saveQuotaCache writes: the quota cache alone.
QuotaCacheFile == File("quotas.json", {}, {}, NoFileTokens)

\* The object exportData serialises, written to the chosen path.
ExportFile(path, as, tokens) ==
    File(path, {"version", "exportDate", "accounts", "tokens", "quotaCache"}, as, tokens)

\* tokens[email] = token
SetToken(tokens, email, token) ==
    [k \in DOMAIN tokens \cup {email} |-> IF k = email THEN token ELSE tokens[k]]

\* The elements of a set in the order the program visits them.
RECURSIVE SeqOf(_)
SeqOf(S) ==
    IF S = {} THEN <<>>
    ELSE LET x == CHOOSE y \in S : TRUE
         IN  <<x>> \o SeqOf(S \ {x})

\* addAccount for each account of a backup in turn: one whose email is
\* registered already, whatever its case, is refused.
RECURSIVE AddAccounts(_, _)
AddAccounts(as, todo) ==
    IF todo = <<>> THEN as
    ELSE AddAccounts(IF \E a \in as : ToLowerCase(a) = ToLowerCase(Head(todo))
                     THEN as ELSE as \cup {Head(todo)},
                     Tail(todo))

\* An exportData or importData in flight: the accounts getAccounts() gave,
\* those yet to visit, the tokens collected, and the file read.
NewEx(op) ==
    [op |-> op, pc |-> "start", accounts |-> {}, todo |-> <<>>,
     tokens |-> NoFileTokens, file |-> NoFile]

ExportStart ==
    /\ ex.pc = "idle"
    /\ nOps < MaxSidebarOps
    /\ nOps' = nOps + 1
    /\ ex' = [NewEx("exportData") EXCEPT
                 !.pc = IF accounts = {} THEN "ex_dialog" ELSE "ex_has",
                 !.accounts = accounts,
                 !.todo = SeqOf(accounts)]
    /\ UNCHANGED <<now, secrets, db, calls, last, switcherVars, extensionVars, decoderVars, autoVars, panelVars,
                   accounts, files>>

\* The loop goes on to the next account, or to the save dialog.
ExportNextAccount(e) ==
    [e EXCEPT !.todo = Tail(@),
              !.pc = IF Len(e.todo) = 1 THEN "ex_dialog" ELSE "ex_has"]

\* `if (token) tokens[account.email] = token`
ExportCollectToken(e, email, token) ==
    ExportNextAccount([e EXCEPT !.tokens = IF Falsy(token) THEN @
                                           ELSE SetToken(@, email, token)])

\* `await this.tokenService.hasToken(account.email)`, and when it is true the
\* call of getToken up to its first await (it runs in slot 1 of calls).
ExportHasToken ==
    LET email == Head(ex.todo)
    IN  /\ ex.pc = "ex_has"
        /\ calls[1].pc = "idle"
        /\ IF hasToken(secrets[email], now)
           THEN /\ calls' = [calls EXCEPT ![1] =
                                [NewCall("getToken", email) EXCEPT !.pc = "gt_get"]]
                /\ ex' = [ex EXCEPT !.pc = "ex_get"]
           ELSE /\ ex' = ExportNextAccount(ex)
                /\ UNCHANGED calls
        /\ UNCHANGED <<now, secrets, db, last, nOps, switcherVars, extensionVars, decoderVars, autoVars, panelVars,
                       accounts, files>>

\* getToken has resolved.
ExportCollect ==
    /\ ex.pc = "ex_get"
    /\ calls[1].pc = "done"
    /\ ex' = ExportCollectToken(ex, Head(ex.todo), calls[1].result)
    /\ calls' = [calls EXCEPT ![1] = Idle]
    /\ UNCHANGED <<now, secrets, db, last, nOps, switcherVars, extensionVars, decoderVars, autoVars, panelVars,
                   accounts, files>>

\* What showSaveDialog resolves to: a path, or undefined when dismissed.
SavePaths == {"rerevolve-backup.json", UNDEF}

\* `uri = await showSaveDialog(...)` and the write.
ExportSave(uri) ==
    /\ ex.pc = "ex_dialog"
    /\ files' = IF uri = UNDEF THEN files
                ELSE WriteFile(files, ExportFile(uri, ex.accounts, ex.tokens))
    /\ ex' = ExIdle
    /\ UNCHANGED <<tokenVars, switcherVars, extensionVars, decoderVars, autoVars, panelVars, accounts>>

\* `!importData.version || !importData.accounts`
ValidBackup(f) == "version" \in f.members /\ "accounts" \in f.members

\* importData is through: saveQuotaCache() writes the quota cache.
ImportEnd(fs) == WriteFile(fs, QuotaCacheFile)

\* `uri = await showOpenDialog(...)`, the read and the check of the content.
ImportStart(choice) ==
    /\ ex.pc = "idle"
    /\ nOps < MaxSidebarOps
    /\ nOps' = nOps + 1
    /\ ex' = IF choice = NoFile \/ ~ValidBackup(choice) THEN ExIdle
             ELSE [NewEx("importData") EXCEPT !.pc = "im_confirm", !.file = choice]
    /\ UNCHANGED <<now, secrets, db, calls, last, switcherVars, extensionVars, decoderVars, autoVars, panelVars,
                   accounts, files>>

\* What the warning resolves to: its first button, its second, or undefined.
Confirmations == {"import", "cancel", UNDEF}

\* `confirm = await showWarningMessage(...)`, the accounts, and the tokens
\* up to the first saveToken.
ImportConfirm(confirm) ==
    LET f == ex.file
        added == AddAccounts(accounts, SeqOf(f.accounts))
        written == IF added = accounts THEN files
                   ELSE WriteFile(files, AccountsFile(added))
        noTokens == "tokens" \notin f.members \/ DOMAIN f.tokens = {}
    IN  /\ ex.pc = "im_confirm"
        /\ IF confirm # "import"
           THEN /\ ex' = ExIdle
                /\ UNCHANGED <<accounts, files>>
           ELSE /\ accounts' = added
                /\ files' = IF noTokens THEN ImportEnd(written) ELSE written
                /\ ex' = IF noTokens THEN ExIdle
                         ELSE [ex EXCEPT !.pc = "im_token",
                                         !.todo = SeqOf(DOMAIN f.tokens)]
        /\ UNCHANGED <<tokenVars, switcherVars, extensionVars, decoderVars, autoVars, panelVars>>

\* `await this.tokenService.saveToken(email, token)`
ImportSaveToken ==
    LET email == Head(ex.todo)
    IN  /\ ex.pc = "im_token"
        /\ Store(email, RawValue(ex.file.tokens[email]))
        /\ IF Len(ex.todo) = 1
           THEN /\ ex' = ExIdle
                /\ files' = ImportEnd(files)
           ELSE /\ ex' = [ex EXCEPT !.todo = Tail(@)]
                /\ UNCHANGED files
        /\ UNCHANGED <<now, db, calls, nOps, switcherVars, extensionVars, decoderVars, autoVars, panelVars, accounts>>

-----------------------------------------------------------------------------
(* refreshAll, refreshActiveOnly and refreshAccount of the sidebar, the    *)
(* refreshLocked flag and the quota cache.                                 *)
(*                                                                         *)
(* ui is the method in flight: todo, the emails it has yet to call         *)
(* refreshAccount with; skip, the accounts whose refreshLocked flag was    *)
(* set in the list refreshAll took at its start; email, the account whose  *)
(* token or quota is awaited; command, whether the method ends by          *)
(* executing rerevolve.refreshQuota.  The getToken it awaits runs in slot  *)
(* 1 of calls.                                                             *)

UiIdle == [pc |-> "idle"]

\* addAccount: tier = 'free' by default, isActive false, refreshLocked false.
DefaultFlags == [tier |-> "free", isActive |-> FALSE, refreshLocked |-> FALSE]

NoFlags == [k \in {} |-> DefaultFlags]

\* getAccount(email): the account whose email is this one, whatever its
\* case, and its flags.
AccountKey(email) == CHOOSE a \in accounts : ToLowerCase(a) = ToLowerCase(email)

Account(email) ==
    IF AccountKey(email) \in DOMAIN flags THEN flags[AccountKey(email)] ELSE DefaultFlags

\* updateAccount(email, updates)
updateAccount(email, updates) ==
    [a \in DOMAIN flags \cup {AccountKey(email)} |->
        IF a = AccountKey(email) THEN updates ELSE flags[a]]

\* setActiveAccount(email): isActive of every account is set anew.
setActiveAccount(email) ==
    [a \in accounts |-> [Account(a) EXCEPT !.isActive = (ToLowerCase(a) = ToLowerCase(email))]]

\* A quota as the cache keeps it: whether it holds an error, its
\* claudeRemaining and lastUpdated, and the method whose fetch it came from
\* ("file" for one read from quotas.json).  fetchQuota resolves to one of
\* two: the result of createErrorResult, or the one parsed from the answer.
createErrorResult(from) ==
    [error |-> TRUE, claudeRemaining |-> -1, lastUpdated |-> now, from |-> from]

parseQuotaResponse(from) ==
    [error |-> FALSE, claudeRemaining |-> 40, lastUpdated |-> now, from |-> from]

Quota(error, from) == IF error THEN createErrorResult(from) ELSE parseQuotaResponse(from)

\* No quota fetched.
NoQuota == [error |-> FALSE, claudeRemaining |-> 0, lastUpdated |-> -1, from |-> ""]

NewUi(op) ==
    [pc |-> "loop", op |-> op, todo |-> <<>>, skip |-> {}, email |-> "", command |-> FALSE,
     fetched |-> NoQuota]

\* The webview message 'toggleTier', at any moment: free becomes pro and
\* anything else free; a free account that is not active is locked.
ToggleTier(email) ==
    LET account == Account(email)
        newTier == IF account.tier = "free" THEN "pro" ELSE "free"
    IN  /\ Registered(email)
        /\ nOps < MaxPanelOps
        /\ nOps' = nOps + 1
        /\ flags' = updateAccount(email, [tier |-> newTier, isActive |-> account.isActive,
                                          refreshLocked |-> (newTier = "free" /\ ~account.isActive)])
        /\ UNCHANGED <<now, secrets, db, calls, last, switcherVars, sidebarVars, extensionVars,
                       decoderVars, autoVars, ui, quotas>>

\* refreshAll up to `await this.tokenService.getCurrentLoggedInEmail()`: the
\* list of accounts is taken before.
RefreshAllStart ==
    /\ ui.pc = "idle"
    /\ nOps < MaxPanelOps
    /\ nOps' = nOps + 1
    /\ ui' = [NewUi("refreshAll") EXCEPT !.pc = "all_email", !.todo = SeqOf(accounts),
                  !.skip = {a \in accounts : Account(a).refreshLocked}]
    /\ UNCHANGED <<now, secrets, db, calls, last, switcherVars, sidebarVars, extensionVars,
                   decoderVars, autoVars, flags, quotas>>

\* The email has resolved: the account logged in becomes the active one.
RefreshAllEmail ==
    LET currentEmail == getCurrentLoggedInEmail(db)
    IN  /\ ui.pc = "all_email"
        /\ flags' = IF currentEmail # NULL /\ Registered(currentEmail)
                    THEN setActiveAccount(currentEmail)
                    ELSE flags
        /\ ui' = [ui EXCEPT !.pc = "loop"]
        /\ UNCHANGED <<tokenVars, switcherVars, sidebarVars, extensionVars, decoderVars, autoVars, quotas>>

\* refreshActiveOnly up to its await of getCurrentLoggedInEmail.
RefreshActiveOnlyStart ==
    /\ ui.pc = "idle"
    /\ nOps < MaxPanelOps
    /\ nOps' = nOps + 1
    /\ ui' = [NewUi("refreshActiveOnly") EXCEPT !.pc = "only_email"]
    /\ UNCHANGED <<now, secrets, db, calls, last, switcherVars, sidebarVars, extensionVars,
                   decoderVars, autoVars, flags, quotas>>

\* The email has resolved: nothing more without one; else the matching
\* account becomes the active one and is refreshed unless it is locked, and
\* the command follows.
RefreshActiveOnlyEmail ==
    LET currentEmail == getCurrentLoggedInEmail(db)
    IN  /\ ui.pc = "only_email"
        /\ IF currentEmail = NULL
           THEN /\ ui' = UiIdle
                /\ flags' = flags
           ELSE IF Registered(currentEmail)
           THEN /\ flags' = setActiveAccount(currentEmail)
                /\ ui' = [ui EXCEPT !.pc = "loop", !.command = TRUE,
                              !.todo = IF Account(currentEmail).refreshLocked
                                       THEN <<>> ELSE <<currentEmail>>]
           ELSE /\ flags' = flags
                /\ ui' = [ui EXCEPT !.pc = "loop", !.command = TRUE]
        /\ UNCHANGED <<tokenVars, switcherVars, sidebarVars, extensionVars, decoderVars, autoVars, quotas>>

\* The webview message 'refreshAccount'.
RefreshAccountMessage(email) ==
    /\ ui.pc = "idle"
    /\ nOps < MaxPanelOps
    /\ nOps' = nOps + 1
    /\ ui' = [NewUi("refreshAccount") EXCEPT !.todo = <<email>>]
    /\ UNCHANGED <<now, secrets, db, calls, last, switcherVars, sidebarVars, extensionVars,
                   decoderVars, autoVars, flags, quotas>>

\* The next account of the loop of refreshAll, which passes over those
\* locked in its list, and refreshAccount(email) up to its await of
\* getToken: it returns for an unknown and for a locked account.
RefreshAccountCall ==
    LET email == Head(ui.todo)
    IN  /\ ui.pc = "loop"
        /\ ui.todo # <<>>
        /\ calls[1].pc = "idle"
        /\ IF \/ email \in ui.skip
              \/ ~Registered(email)
              \/ Account(email).refreshLocked
           THEN /\ ui' = [ui EXCEPT !.todo = Tail(@)]
                /\ calls' = calls
           ELSE /\ ui' = [ui EXCEPT !.pc = "token", !.email = email]
                /\ calls' = [calls EXCEPT ![1] =
                                [NewCall("getToken", email) EXCEPT !.pc = "gt_get"]]
        /\ UNCHANGED <<now, secrets, db, last, nOps, switcherVars, sidebarVars, extensionVars,
                       decoderVars, autoVars, flags, quotas>>

\* getToken has resolved: refreshAccount returns without a token and awaits
\* fetchQuota with one.
RefreshAccountToken ==
    /\ ui.pc = "token"
    /\ calls[1].pc = "done"
    /\ calls' = [calls EXCEPT ![1] = Idle]
    /\ ui' = IF Falsy(calls[1].result)
             THEN [ui EXCEPT !.pc = "loop", !.todo = Tail(@)]
             ELSE [ui EXCEPT !.pc = "quota"]
    /\ UNCHANGED <<now, secrets, db, last, nOps, switcherVars, sidebarVars, extensionVars,
                   decoderVars, autoVars, flags, quotas>>

\* fetchQuota has resolved, with a quota or with an error and
\* claudeRemaining = -1: the quota kept before stays, but for its
\* lastUpdated, when the fetch failed and that one holds no error, else the
\* new one replaces it.
QuotaOutcomes == {"quota", "error"}

\* A refreshAccount that puts every result into the cache.
RefreshAccountQuotaReplacing(outcome) ==
    LET quota == Quota(outcome = "error", ui.op)
    IN  /\ ui.pc = "quota"
        /\ quotas' = [a \in DOMAIN quotas \cup {ui.email} |->
                          IF a = ui.email THEN quota ELSE quotas[a]]
        /\ ui' = [ui EXCEPT !.pc = "loop", !.todo = Tail(@), !.fetched = quota]
        /\ UNCHANGED <<tokenVars, switcherVars, sidebarVars, extensionVars, decoderVars, autoVars, flags>>

RefreshAccountQuota(outcome) ==
    LET quota == Quota(outcome = "error", ui.op)
        keep == /\ quota.error
                /\ quota.claudeRemaining < 0
                /\ ui.email \in DOMAIN quotas
                /\ ~quotas[ui.email].error
    IN  /\ ui.pc = "quota"
        /\ quotas' = IF keep THEN [quotas EXCEPT ![ui.email].lastUpdated = now]
                     ELSE [a \in DOMAIN quotas \cup {ui.email} |->
                              IF a = ui.email THEN quota ELSE quotas[a]]
        /\ ui' = [ui EXCEPT !.pc = "loop", !.todo = Tail(@), !.fetched = quota]
        /\ UNCHANGED <<tokenVars, switcherVars, sidebarVars, extensionVars, decoderVars, autoVars, flags>>

\* The method ends: refreshActiveOnly by executing rerevolve.refreshQuota,
\* whose handler, refreshActiveQuota, starts.
RefreshEnd ==
    /\ ui.pc = "loop"
    /\ ui.todo = <<>>
    /\ ui' = IF ui.command THEN [ui EXCEPT !.pc = "aq_email", !.command = FALSE] ELSE UiIdle
    /\ UNCHANGED <<tokenVars, switcherVars, sidebarVars, extensionVars, decoderVars, autoVars, flags, quotas>>

\* refreshActiveQuota: the email has resolved, and getToken is awaited for it.
ActiveQuotaEmail ==
    LET activeEmail == getCurrentLoggedInEmail(db)
    IN  /\ ui.pc = "aq_email"
        /\ calls[1].pc = "idle"
        /\ IF activeEmail = NULL
           THEN /\ ui' = UiIdle
                /\ calls' = calls
           ELSE /\ ui' = [ui EXCEPT !.pc = "aq_token", !.email = activeEmail]
                /\ calls' = [calls EXCEPT ![1] =
                                [NewCall("getToken", activeEmail) EXCEPT !.pc = "gt_get"]]
        /\ UNCHANGED <<now, secrets, db, last, nOps, switcherVars, sidebarVars, extensionVars,
                       decoderVars, autoVars, flags, quotas>>

\* getToken has resolved: fetchQuota is awaited when there is a token.
ActiveQuotaToken ==
    /\ ui.pc = "aq_token"
    /\ calls[1].pc = "done"
    /\ calls' = [calls EXCEPT ![1] = Idle]
    /\ ui' = IF Falsy(calls[1].result) THEN UiIdle ELSE [ui EXCEPT !.pc = "aq_quota"]
    /\ UNCHANGED <<now, secrets, db, last, nOps, switcherVars, sidebarVars, extensionVars,
                   decoderVars, autoVars, flags, quotas>>

\* fetchQuota has resolved: the status bar shows the quota.
ActiveQuotaFetch ==
    /\ ui.pc = "aq_quota"
    /\ ui' = UiIdle
    /\ UNCHANGED <<tokenVars, switcherVars, sidebarVars, extensionVars, decoderVars, autoVars, flags, quotas>>

-----------------------------------------------------------------------------
(* The webview message removeAccount.                                      *)
(*                                                                         *)
(* ui.email is the account of the message, and ui.removed whether the      *)
(* handler went on to delete after its warning.                            *)

\* The handler of the message up to `await showWarningMessage(...)`.
RemoveAccountMessage(email) ==
    /\ ui = UiIdle
    /\ nOps < MaxOps
    /\ nOps' = nOps + 1
    /\ ui' = [pc |-> "rm_confirm", op |-> "removeAccount", email |-> email,
              removed |-> FALSE]
    /\ UNCHANGED <<switcherVars, sidebarVars, extensionVars, decoderVars, autoVars, now, secrets, db,
                   calls, last, flags, quotas>>

\* What the modal warning resolves to: its button, or undefined.
RemoveChoices == {"delete", UNDEF}

\* AccountManager.removeAccount(email): the accounts with another email
\* stay, and accounts.json is written when one went.
removeAccount(email) == {a \in accounts : ToLowerCase(a) # ToLowerCase(email)}

\* `confirmDelete = await showWarningMessage(...)`; with the button,
\* accountManager.removeAccount and deleteToken up to its secrets.delete.
RemoveAccountConfirm(confirmDelete) ==
    /\ ui.pc = "rm_confirm"
    /\ IF confirmDelete = "delete"
       THEN /\ accounts' = removeAccount(ui.email)
            /\ files' = IF accounts' # accounts
                        THEN WriteFile(files, AccountsFile(accounts')) ELSE files
            /\ flags' = [a \in DOMAIN flags \cap accounts' |-> flags[a]]
            /\ ui' = [ui EXCEPT !.pc = "rm_delete", !.removed = TRUE]
       ELSE /\ ui' = [ui EXCEPT !.pc = "done"]
            /\ UNCHANGED <<accounts, files, flags>>
    /\ UNCHANGED <<switcherVars, extensionVars, decoderVars, autoVars, now, secrets, db, calls, last,
                   nOps, ex, quotas>>

\* `await this.secrets.delete(TOKEN_PREFIX + email)` of deleteToken resolves,
\* and the handler ends with this.refresh().
RemoveAccountDelete ==
    /\ ui.pc = "rm_delete"
    /\ Store(ui.email, NoValue)
    /\ ui' = [ui EXCEPT !.pc = "done"]
    /\ UNCHANGED <<switcherVars, sidebarVars, extensionVars, decoderVars, autoVars, now, db, calls,
                   nOps, flags, quotas>>

-----------------------------------------------------------------------------
(* AutoAcceptService (auto-accept-service.ts).                             *)
(*                                                                         *)
(* aa holds the fields of the service, enabled (_enabled), pollTimer (0    *)
(* for null, else the handle) and connections (the ids in the map), and    *)
(* what is in flight around it: timers, the intervals set and not          *)
(* cleared; starts, the start() calls awaiting isCDPAvailable; polls, the  *)
(* poll() calls awaiting getPages; opening, the ids whose WebSocket was    *)
(* made and has not opened yet.  toggle is history: the last toggle(), the *)
(* start() it made, what it returned, what the sidebar posted and the      *)
(* state it led to.                                                        *)

NoToggle == [pc |-> "none"]

AaIdle ==
    [enabled |-> FALSE, pollTimer |-> 0, connections |-> {},
     timers |-> {}, nTimers |-> 0, starts |-> {}, nStarts |-> 0,
     polls |-> 0, opening |-> {}, nCalls |-> 0, activated |-> FALSE,
     toggle |-> NoToggle]

\* start() up to `await this.isCDPAvailable()`.
start(a) ==
    IF a.enabled THEN a
    ELSE [a EXCEPT !.starts = @ \cup {a.nStarts + 1}, !.nStarts = @ + 1]

\* stop(): clearInterval of the handle in pollTimer, close of every
\* connection in the map, and the map cleared.
stop(a) ==
    IF ~a.enabled THEN a
    ELSE [a EXCEPT !.enabled = FALSE,
                   !.timers = @ \ {a.pollTimer},
                   !.pollTimer = 0,
                   !.connections = {}]

\* toggle(): stop() or start(), not awaited, and `return this._enabled`.
\* posted is the enabled member of the message autoAcceptStatus, when the
\* caller is the sidebar.
Toggle(posts) ==
    LET a == IF aa.enabled THEN stop(aa) ELSE start(aa)
        isEnabled == a.enabled
    IN  /\ aa.nCalls < MaxAutoOps
        /\ aa' = [a EXCEPT !.nCalls = @ + 1,
                           !.toggle = [pc |-> IF aa.enabled THEN "settled" ELSE "starting",
                                       from |-> aa.enabled, start |-> a.nStarts,
                                       returned |-> isEnabled,
                                       posted |-> IF posts THEN isEnabled ELSE UNDEF,
                                       result |-> a.enabled]]
        /\ UNCHANGED <<tokenVars, switcherVars, sidebarVars, extensionVars, decoderVars, panelVars>>

\* The webview message 'toggleAutoAccept'.
ToggleAutoAcceptMessage == Toggle(TRUE)

\* The command rerevolve.toggleAutoAccept (the status bar item).
ToggleAutoAcceptCommand == Toggle(FALSE)

\* The 3000 ms timeout of activate(), from where tryConnect has resolved
\* true: start() unless the service is enabled.
AutoStartTimeout ==
    /\ ~aa.activated
    /\ aa' = [start(aa) EXCEPT !.activated = TRUE]
    /\ UNCHANGED <<tokenVars, switcherVars, sidebarVars, extensionVars, decoderVars, panelVars>>

\* start() from where isCDPAvailable resolves: without CDP it returns after
\* its warning; with CDP it sets _enabled, fires the status event and sets
\* the interval of poll, keeping the handle in pollTimer.
StartResolve(id, cdpAvailable) ==
    LET a == IF cdpAvailable
             THEN [aa EXCEPT !.enabled = TRUE,
                             !.pollTimer = aa.nTimers + 1,
                             !.timers = @ \cup {aa.nTimers + 1},
                             !.nTimers = @ + 1]
             ELSE aa
    IN  /\ id \in aa.starts
        /\ aa' = [a EXCEPT !.starts = @ \ {id},
                           !.toggle = IF aa.toggle.pc = "starting" /\ aa.toggle.start = id
                                      THEN [aa.toggle EXCEPT !.pc = "settled",
                                                             !.result = a.enabled]
                                      ELSE aa.toggle]
        /\ UNCHANGED <<tokenVars, switcherVars, sidebarVars, extensionVars, decoderVars, panelVars>>

\* An interval fires: poll() returns at once unless the service is enabled,
\* and else awaits getPages.
PollFire(timer) ==
    /\ timer \in aa.timers
    /\ aa.enabled
    /\ aa.polls < MaxPolls
    /\ aa' = [aa EXCEPT !.polls = @ + 1]
    /\ UNCHANGED <<tokenVars, switcherVars, sidebarVars, extensionVars, decoderVars, panelVars>>

\* getPages resolves with a page that is not in the map: connect makes its
\* WebSocket.
PollConnect(id) ==
    /\ aa.polls > 0
    /\ id \notin aa.connections
    /\ id \notin aa.opening
    /\ aa' = [aa EXCEPT !.opening = @ \cup {id}]
    /\ UNCHANGED <<tokenVars, switcherVars, sidebarVars, extensionVars, decoderVars, panelVars>>

\* poll() has gone through the ports.
PollEnd ==
    /\ aa.polls > 0
    /\ aa' = [aa EXCEPT !.polls = @ - 1]
    /\ UNCHANGED <<tokenVars, switcherVars, sidebarVars, extensionVars, decoderVars, panelVars>>

\* ws.on('open'): this.connections.set(id, ...).
WsOpen(id) ==
    /\ id \in aa.opening
    /\ aa' = [aa EXCEPT !.opening = @ \ {id}, !.connections = @ \cup {id}]
    /\ UNCHANGED <<tokenVars, switcherVars, sidebarVars, extensionVars, decoderVars, panelVars>>

\* ws.on('error') before the socket opened: connect resolves false.
WsError(id) ==
    /\ id \in aa.opening
    /\ aa' = [aa EXCEPT !.opening = @ \ {id}]
    /\ UNCHANGED <<tokenVars, switcherVars, sidebarVars, extensionVars, decoderVars, panelVars>>

\* ws.on('close'): this.connections.delete(id).
WsClose(id) ==
    /\ id \in aa.connections
    /\ aa' = [aa EXCEPT !.connections = @ \ {id}]
    /\ UNCHANGED <<tokenVars, switcherVars, sidebarVars, extensionVars, decoderVars, panelVars>>

-----------------------------------------------------------------------------
(* Calls on the TLV decoder.                                               *)
(*                                                                         *)
(* dec holds the buffer at hand (data) and, once a function has been       *)
(* called on it, the function (op), its arguments and what it gave (out).  *)
(* kind, fields and tail say how the buffer was made: the encoding of      *)
(* fields followed by the bytes of tail; and for a buffer made to wrap an  *)
(* inner message with two strings, num is the number of the wrapper and    *)
(* strings the two.                                                        *)

DecInput(src) ==
    [pc |-> "input", data |-> src.data, kind |-> src.kind, fields |-> src.fields,
     tail |-> src.tail, num |-> src.num, strings |-> src.strings,
     op |-> "", offset |-> 0, arg |-> 0, out |-> [ok |-> FALSE]]

DecDone(op, offset, arg, out) ==
    [dec EXCEPT !.pc = "done", !.op = op, !.offset = offset, !.arg = arg, !.out = out]

DecCall(op, offset, arg, out) ==
    /\ dec.pc = "input"
    /\ dec' = DecDone(op, offset, arg, out)
    /\ UNCHANGED <<tokenVars, switcherVars, sidebarVars, extensionVars, panelVars, autoVars>>

DecReadVarint(offset) ==
    DecCall("readVarint", offset, 0, readVarint(dec.data, offset))

DecSkipField(offset, wireType) ==
    DecCall("skipField", offset, wireType, skipField(dec.data, offset, wireType))

DecFindField(targetField) ==
    DecCall("findField", 0, targetField, findField(dec.data, targetField))

DecParseOAuthTokenInfo ==
    DecCall("parseOAuthTokenInfo", 0, 0, parseOAuthTokenInfo(dec.data))

\* findField(raw, n) and, on the field found, parseOAuthTokenInfo: what
\* extractTokensWithProtobuf does with n = 6 and getRefreshToken with n = 1.
FindThenParse(data, targetField) ==
    LET oauthField == findField(data, targetField)
    IN  IF oauthField.kind # "found"
        THEN [isNull |-> TRUE]
        ELSE LET tokenInfo == parseOAuthTokenInfo(oauthField.payload)
             IN  [isNull |-> FALSE, accessToken |-> tokenInfo.accessToken,
                  refreshToken |-> tokenInfo.refreshToken]

DecFindThenParse(targetField) ==
    DecCall("findThenParse", 0, targetField, FindThenParse(dec.data, targetField))

\* extractTokensWithProtobuf() and getRefreshToken() on the rows as they are.
DecExtractTokensWithProtobuf ==
    DecCall("extractTokensWithProtobuf", 0, 6, extractTokensWithProtobuf(db))

DecGetRefreshToken ==
    DecCall("getRefreshToken", 0, 1, [token |-> getRefreshToken(db)])

-----------------------------------------------------------------------------
(* The clock and the host application. *)

\* Between invocations the clock moves on to a later one of these instants:
\* for a record created at 0, one millisecond before its refresh threshold,
\* the threshold, one millisecond past it, its expiry and one millisecond
\* past that.  While an invocation waits for the
\* token endpoint the clock moves by FetchDelays (see GetTokenFetchDone).
Instants ==
    {TTL_MS - SKEW_MS - 1, TTL_MS - SKEW_MS, TTL_MS - SKEW_MS + 1, TTL_MS, TTL_MS + 1}

Tick(t) ==
    /\ AllIdle
    /\ t > now
    /\ now' = t
    /\ UNCHANGED <<switcherVars, sidebarVars, extensionVars, decoderVars, autoVars, panelVars, secrets, db, calls, nOps, last>>

\* The host application, another process, rewrites its state.vscdb at any
\* time: its user logs out, logs in, or switches to another account.
HostRewrites == {LoggedOut, LoggedIn, OtherAccount}

HostWrite(d) ==
    /\ d # db
    /\ db' = d
    /\ UNCHANGED <<switcherVars, sidebarVars, extensionVars, decoderVars, autoVars, panelVars, now, secrets, calls, nOps, last>>

\* SecretStorage outlives the extension host: what an earlier session left in
\* it.  Nothing, or the record a capture at time 0 stored for a@x.com, with or
\* without a refresh token.
EarlierSessions ==
    {[k \in Keys |-> NoValue],
     [k \in Keys |-> IF k = "a@x.com"
                     THEN CredValue("A1", "R1", TTL_MS, "a@x.com", 0) ELSE NoValue],
     [k \in Keys |-> IF k = "a@x.com"
                     THEN CredValue("A1", UNDEF, TTL_MS, "a@x.com", 0) ELSE NoValue]}

\* The texts of the row the model draws from: the identity of a@x.com, one
\* with a name and no email, the identity of b@x.com with both, an object
\* without members, a text that is no JSON and holds a single quote, a text
\* with blanks around it, and an identity whose name holds a blank.
IdentityA == <<"{", DQ, "email", DQ, ":", DQ, "a@x.com", DQ, "}">>
IdentityNameOnly == <<"{", DQ, "name", DQ, ":", SP, DQ, "bob", DQ, "}">>
IdentityB ==
    <<"{", DQ, "email", DQ, ":", DQ, "b@x.com", DQ, ",", DQ, "name", DQ, ":", DQ, "bob", DQ, "}">>
EmptyObject == <<"{", "}">>
PlainWithQuote == <<"it", SQ, "s">>
Padded == <<SP, "{", "}", NL>>
NameWithBlank == <<"{", DQ, "name", DQ, ":", DQ, "Bob", SP, "B", DQ, "}">>

SwitcherTexts ==
    {IdentityA, IdentityNameOnly, IdentityB, EmptyObject, PlainWithQuote, Padded,
     NameWithBlank, <<>>}

SwitcherRows == {NoRow} \cup {TextRow(t) : t \in SwitcherTexts}

\* The host rewrites the row at any time.
HostRowRewrites == {NoRow, TextRow(IdentityA), TextRow(IdentityB)}

HostRowWrite(row) ==
    /\ row # authStatusRow
    /\ authStatusRow' = row
    /\ UNCHANGED <<tokenVars, sidebarVars, extensionVars, decoderVars, autoVars, panelVars, snapshotsSecret, snapshotsCache, sw, saved>>

\* What an earlier session left under SNAPSHOTS_KEY: nothing, a snapshot of
\* b@x.com, or an older snapshot of a@x.com.
EarlierSnapshots ==
    {NoValue,
     SnapshotsValue(SetSnapshot(NoSnapshots, "b@x.com",
                                AccountSnapshot("b@x.com", IdentityB, 0))),
     SnapshotsValue(SetSnapshot(NoSnapshots, "a@x.com",
                                AccountSnapshot("a@x.com", PlainWithQuote, 0)))}

\* The emails switchToAccount and deleteSnapshot are called with.
SwitcherEmails == {"a@x.com", "b@x.com", "unknown", "Bob B"}

NoSaved == [k \in {} |-> <<>>]

\* The extension after activate(), seen from the token service: no switcher
\* invocation, no export, no timer accounted for.
TokenInit ==
    /\ now = 0
    /\ secrets \in EarlierSessions
    /\ db \in HostStates
    /\ calls = [p \in Procs |-> Idle]
    /\ last = NoLast
    /\ nOps = 0

SwitcherAtRest ==
    /\ authStatusRow = NoRow
    /\ snapshotsSecret = NoValue
    /\ snapshotsCache = NullCache
    /\ sw = SwIdle
    /\ saved = NoSaved

\* No timer accounted for and no callback in flight.
ExtensionAtRest ==
    /\ timers = {}
    /\ chains = [p \in Procs |-> NoChain]

\* No call on the decoder, no command or message being handled, no account
\* locked and no quota kept.
DecIdle == [pc |-> "idle"]
NoQuotas == [k \in {} |-> ""]

DecoderAtRest == dec = DecIdle

PanelAtRest ==
    /\ ui = UiIdle
    /\ flags = NoFlags
    /\ quotas = NoQuotas

AutoAtRest == aa = AaIdle

SidebarAtRest ==
    /\ accounts = {}
    /\ files = {}
    /\ ex = ExIdle

Init ==
    /\ TokenInit
    /\ SwitcherAtRest
    /\ SidebarAtRest
    /\ ExtensionAtRest
    /\ DecoderAtRest
    /\ AutoAtRest
    /\ PanelAtRest

\* Invocations one after the other, each awaited by its caller before the next
\* starts (slot 1); the clock and the host application move by themselves.
Next ==
    \/ \E e \in ArgEmails : AllIdle /\ GetTokenStart(1, e)
    \/ GetTokenGet(1)
    \/ GetTokenRecoverStore1(1)
    \/ GetTokenGet2(1)
    \/ \E o \in FetchOutcomes, d \in FetchDelays : GetTokenFetchDone(1, o, d)
    \/ GetTokenRefreshStore(1)
    \/ GetTokenRecoverStore2(1)
    \/ GetTokenGet3(1)
    \/ \E e \in ArgEmails : AllIdle /\ CaptureStart(1, e)
    \/ CaptureAuth(1)
    \/ CaptureRefresh(1)
    \/ CaptureStore(1)
    \/ \E e \in ArgEmails : AllIdle /\ HasTokenStart(1, e)
    \/ HasTokenGet(1)
    \/ \E e \in ArgEmails : AllIdle /\ DeleteToken(e)
    \/ \E e \in ArgEmails, t \in RawTexts : AllIdle /\ SaveToken(e, t)
    \/ Return(1)
    \/ \E t \in Instants : Tick(t)
    \/ \E d \in HostRewrites : HostWrite(d)

Spec == Init /\ [][Next]_vars

\* The account switcher by itself: its invocations one after the other, the
\* host rewriting the row, the clock, and restarts of the extension host.
SwitchInit ==
    /\ now = 0
    /\ secrets = [k \in Keys |-> NoValue]
    /\ db = LoggedOut
    /\ calls = [p \in Procs |-> Idle]
    /\ last = NoLast
    /\ nOps = 0
    /\ authStatusRow \in SwitcherRows
    /\ snapshotsSecret \in EarlierSnapshots
    /\ snapshotsCache = NullCache
    /\ sw = SwIdle
    /\ saved = NoSaved
    /\ SidebarAtRest
    /\ ExtensionAtRest
    /\ DecoderAtRest
    /\ AutoAtRest
    /\ PanelAtRest

SwitchNext ==
    \/ SaveSnapshotStart
    \/ \E o \in ExecOutcomes : SaveSnapshotRead(o)
    \/ SaveSnapshotLoad
    \/ SaveSnapshotStore
    \/ \E e \in SwitcherEmails : SwitchStart(e)
    \/ SwitchLoad
    \/ \E o \in ExecOutcomes : SwitchExec(o)
    \/ \E s \in Selections : SwitchPrompt(s)
    \/ \E e \in SwitcherEmails : DeleteSnapshotStart(e)
    \/ DeleteSnapshotLoad
    \/ DeleteSnapshotStore
    \/ SwitchAccountCommand
    \/ GetSnapshotsMessage
    \/ SwReturn
    \/ SwitcherRestart
    \/ \E r \in HostRowRewrites : HostRowWrite(r)
    \/ Tick(TTL_MS)

SwitchSpec == SwitchInit /\ [][SwitchNext]_vars

\* The snapshots of the switcher on a SecretStorage whose store may reject
\* (the keychain of the system is locked or gone): saveSnapshot and
\* deleteSnapshot one after the other, the host rewriting the row, and
\* restarts of the extension host.
StoreFailNext ==
    \/ SaveSnapshotStart
    \/ \E o \in ExecOutcomes : SaveSnapshotRead(o)
    \/ SaveSnapshotLoad
    \/ SaveSnapshotStore
    \/ SaveSnapshotStoreFails
    \/ \E e \in SwitcherEmails : DeleteSnapshotStart(e)
    \/ DeleteSnapshotLoad
    \/ DeleteSnapshotStore
    \/ DeleteSnapshotStoreFails
    \/ SwReturn
    \/ SwitcherRestart
    \/ \E r \in HostRowRewrites : HostRowWrite(r)

StoreFailSpec == SwitchInit /\ [][StoreFailNext]_vars

\* The extension from its activation on, with a@x.com registered and active:
\* the timers, the commands of the user, and the getToken calls they make,
\* each running as its I/O completes.  The extension is activated when the
\* record an earlier session left is fresh, or when it has expired.
ActivationInstants == {0, TTL_MS}

ChainInit ==
    /\ now \in ActivationInstants
    /\ secrets \in EarlierSessions
    /\ db = LoggedIn
    /\ calls = [p \in Procs |-> Idle]
    /\ last = NoLast
    /\ nOps = 0
    /\ SwitcherAtRest
    /\ accounts = {"a@x.com"}
    /\ files = {AccountsFile(accounts)}
    /\ ex = ExIdle
    /\ timers = TimersAt(now)
    /\ chains = [p \in Procs |-> NoChain]
    /\ DecoderAtRest
    /\ AutoAtRest
    /\ PanelAtRest

\* A new callback takes the lowest free slot: which slot it runs in is of no
\* consequence.  The time a fetch takes passes in TimerTick.
LowestFree(p) == Free(p) /\ \A q \in Procs : q < p => ~Free(q)

ChainNext ==
    \/ \E p \in Procs, t \in timers : LowestFree(p) /\ TimerFire(p, t)
    \/ \E p \in Procs, f \in UserCommands : LowestFree(p) /\ UserCommand(p, f)
    \/ \E p \in Procs : ChainCall(p)
    \/ \E p \in Procs : ChainGetToken(p)
    \/ \E p \in Procs : ChainResume(p)
    \/ \E p, q \in Procs : LowestFree(q) /\ ChainCommand(p, q)
    \/ \E t \in timers : TimerTick(t)
    \/ \E p \in Procs : GetTokenGet(p)
    \/ \E p \in Procs : GetTokenRecoverStore1(p)
    \/ \E p \in Procs : GetTokenGet2(p)
    \/ \E p \in Procs, o \in FetchOutcomes : GetTokenFetchDone(p, o, 0)
    \/ \E p \in Procs : GetTokenRefreshStore(p)
    \/ \E p \in Procs : GetTokenRecoverStore2(p)
    \/ \E p \in Procs : GetTokenGet3(p)

ChainSpec == ChainInit /\ [][ChainNext]_vars

\* Two getToken calls for a@x.com on a record that has expired, each started
\* at any moment and resumed whenever its I/O completes, while the host goes
\* on rewriting its file.
RaceEmail == "a@x.com"

RaceInit ==
    /\ now = TTL_MS
    /\ secrets \in {s \in EarlierSessions : s[RaceEmail].kind = "cred"}
    /\ db \in HostRewrites
    /\ calls = [p \in Procs |-> Idle]
    /\ last = NoLast
    /\ nOps = 0
    /\ SwitcherAtRest
    /\ SidebarAtRest
    /\ ExtensionAtRest
    /\ DecoderAtRest
    /\ AutoAtRest
    /\ PanelAtRest

RaceNext ==
    \/ \E p \in Procs : GetTokenStart(p, RaceEmail)
    \/ \E p \in Procs : GetTokenGet(p)
    \/ \E p \in Procs, o \in FetchOutcomes, d \in FetchDelays : GetTokenFetchDone(p, o, d)
    \/ \E p \in Procs : GetTokenRefreshStore(p)
    \/ \E p \in Procs : GetTokenRecoverStore2(p)
    \/ \E p \in Procs : GetTokenGet3(p)
    \/ \E d \in HostRewrites : HostWrite(d)

RaceSpec == RaceInit /\ [][RaceNext]_vars

\* The sidebar with the operations that persist secrets: the token service's
\* and the switcher's invocations, exportData and importData, one after the
\* other, from a session in which a@x.com is logged in and may be registered.
\* A file offered to importData is one the extension wrote or one of these: a
\* backup brought from another machine, and a file that is no backup.
ForeignFiles ==
    {ExportFile("other-backup.json", {"b@x.com"},
                SetToken(NoFileTokens, "b@x.com", "ya29.rawtoken")),
     File("notes.json", {}, {}, NoFileTokens)}

Registries == {{}, {"a@x.com"}}

ExportInit ==
    /\ now = 0
    /\ secrets \in EarlierSessions
    /\ db = LoggedIn
    /\ calls = [p \in Procs |-> Idle]
    /\ last = NoLast
    /\ nOps = 0
    /\ authStatusRow = TextRow(IdentityA)
    /\ snapshotsSecret = NoValue
    /\ snapshotsCache = NullCache
    /\ sw = SwIdle
    /\ saved = NoSaved
    /\ accounts \in Registries
    /\ files = IF accounts = {} THEN {} ELSE {AccountsFile(accounts)}
    /\ ex = ExIdle
    /\ ExtensionAtRest
    /\ DecoderAtRest
    /\ AutoAtRest
    /\ PanelAtRest

\* Nothing is in flight.
Quiet == AllIdle /\ sw.pc = "idle" /\ ex.pc = "idle"

ExportNext ==
    \/ \E e \in ArgEmails : Quiet /\ GetTokenStart(1, e)
    \/ GetTokenGet(1)
    \/ GetTokenRecoverStore1(1)
    \/ GetTokenGet2(1)
    \/ \E o \in FetchOutcomes : GetTokenFetchDone(1, o, 0)
    \/ GetTokenRefreshStore(1)
    \/ GetTokenRecoverStore2(1)
    \/ GetTokenGet3(1)
    \/ \E e \in ArgEmails : Quiet /\ CaptureStart(1, e)
    \/ CaptureAuth(1)
    \/ CaptureRefresh(1)
    \/ CaptureStore(1)
    \/ ex.pc = "idle" /\ Return(1)
    \/ Quiet /\ SaveSnapshotStart
    \/ \E o \in ExecOutcomes : SaveSnapshotRead(o)
    \/ SaveSnapshotLoad
    \/ SaveSnapshotStore
    \/ \E e \in SwitcherEmails : Quiet /\ DeleteSnapshotStart(e)
    \/ DeleteSnapshotLoad
    \/ DeleteSnapshotStore
    \/ SwReturn
    \/ Quiet /\ ExportStart
    \/ ExportHasToken
    \/ ExportCollect
    \/ \E u \in SavePaths : ExportSave(u)
    \/ \E f \in {NoFile} \cup files \cup ForeignFiles : Quiet /\ ImportStart(f)
    \/ \E c \in Confirmations : ImportConfirm(c)
    \/ ImportSaveToken
    \/ Tick(TTL_MS)

ExportSpec == ExportInit /\ [][ExportNext]_vars

\* The decoder by itself, on the buffers of Sources; both binary rows of
\* state.vscdb hold the buffer, beside a valid identity.
RECURSIVE EncodeVarint(_)
EncodeVarint(v) ==
    IF v < 128 THEN <<v>> ELSE <<128 + (v % 128)>> \o EncodeVarint(v \div 128)

Field(num, wire, value) == [num |-> num, wire |-> wire, value |-> value]

\* A field on the wire: its tag, then a varint (the one number of value),
\* 8 bytes, a length and that many bytes, or 4 bytes.
EncodeField(f) ==
    EncodeVarint(Tag(f.num, f.wire)) \o
        CASE f.wire = 0 -> EncodeVarint(f.value[1])
          [] f.wire = 2 -> EncodeVarint(Len(f.value)) \o f.value
          [] OTHER -> f.value

RECURSIVE Encode(_)
Encode(fs) == IF fs = <<>> THEN <<>> ELSE EncodeField(Head(fs)) \o Encode(Tail(fs))

\* A string as its characters, and its bytes.
Ord(c) ==
    CASE c = "1" -> 49
      [] c = "2" -> 50
      [] c = "A" -> 65
      [] c = "R" -> 82
      [] c = "T" -> 84

Bytes(chars) == [i \in 1..Len(chars) |-> Ord(chars[i])]

Strings == {<<>>, <<"A", "T", "2">>, <<"R", "1">>}

\* An OAuthTokenInfo message with access token T in field 1 and refresh
\* token R in field 3, an unrelated varint field between them.
TokenInfo(T, R) ==
    <<Field(1, 2, Bytes(T)), Field(2, 0, <<300>>), Field(3, 2, Bytes(R))>>

SampleT == <<"A", "T", "2">>
SampleR == <<"R", "1">>
SampleInfo == Encode(TokenInfo(SampleT, SampleR))
OtherInfo == Encode(TokenInfo(SampleR, SampleT))

\* Top-level fields: for the wrapper numbers of the two schemas a varint, a
\* 64-bit, an empty and a filled length-delimited and a 32-bit field, and
\* two fields whose tag takes two bytes.
WrapperNums == {1, 6}

Fields ==
    {Field(n, 0, <<300>>) : n \in WrapperNums}
    \cup {Field(n, 1, <<1, 2, 3, 4, 5, 6, 7, 255>>) : n \in WrapperNums}
    \cup {Field(n, 2, b) : n \in WrapperNums, b \in {<<>>, SampleInfo}}
    \cup {Field(n, 5, <<128, 0, 0, 1>>) : n \in WrapperNums}
    \cup {Field(16, 0, <<1>>), Field(16, 2, <<>>)}

\* Fields of an inner message: strings in fields 1 and 3, and fields that
\* are neither.
InnerFields ==
    {Field(n, 2, Bytes(t)) : n \in {1, 3}, t \in Strings}
    \cup {Field(2, 0, <<300>>), Field(1, 0, <<1>>), Field(4, 5, <<128, 0, 0, 1>>)}

RECURSIVE SeqsUpTo(_, _)
SeqsUpTo(S, n) ==
    IF n = 0 THEN {<<>>}
    ELSE LET shorter == SeqsUpTo(S, n - 1)
         IN  shorter \cup {Append(q, x) : q \in shorter, x \in S}

\* What a buffer is cut off or spoilt with, each at the start of a field: a
\* tag whose varint is not ended, a tag without its length, a length whose
\* varint is not ended, a declared length past the end of the buffer, and
\* tags of wire types 3 and 7.
Damages == {<<128>>, <<10>>, <<10, 129>>, <<18, 5, 65>>, <<11, 0>>, <<23>>}

RawBytes == {0, 10, 11, 26, 128, 255}

Source(kind, fs, tail) ==
    [kind |-> kind, fields |-> fs, tail |-> tail, data |-> Encode(fs) \o tail,
     num |-> 0, strings |-> <<>>]

\* A wrapper numbered n around an inner message with T in field 1 and R in
\* field 3, other fields around the two and around the wrapper.
Around == {<<<<>>, <<>>>>,
           <<<<Field(2, 0, <<300>>)>>, <<>>>>,
           <<<<Field(1, 0, <<1>>)>>, <<Field(4, 5, <<128, 0, 0, 1>>)>>>>,
           <<<<Field(16, 2, <<65>>)>>, <<Field(3, 1, <<1, 2, 3, 4, 5, 6, 7, 255>>)>>>>}

Orders == {"13", "31"}

Wrapped(n, T, R, order, inside, outside) ==
    LET both == IF order = "13"
                THEN <<Field(1, 2, Bytes(T)), Field(2, 0, <<300>>), Field(3, 2, Bytes(R))>>
                ELSE <<Field(3, 2, Bytes(R)), Field(1, 2, Bytes(T))>>
        inner == inside[1] \o both \o inside[2]
        outer == outside[1] \o <<Field(n, 2, Encode(inner))>> \o outside[2]
    IN  [kind |-> "wrapped", fields |-> outer, tail |-> <<>>, data |-> Encode(outer),
         num |-> n, strings |-> <<T, R>>]


Sources ==
    {Source("outer", fs, <<>>) : fs \in SeqsUpTo(Fields, MaxFields)}
    \cup {Source("outer", fs, t) : fs \in SeqsUpTo(Fields, 1), t \in Damages}
    \cup {Source("inner", fs, t) : fs \in SeqsUpTo(InnerFields, 2), t \in Damages \cup {<<>>}}
    \cup {Source("raw", <<>>, b) : b \in SeqsUpTo(RawBytes, MaxRawLen)}
    \cup {Wrapped(n, T, R, o, i, x) :
              n \in WrapperNums, T \in Strings, R \in Strings, o \in Orders,
              i \in Around, x \in Around}
    \cup {Wrapped(n, SampleT, SampleR, "13", <<<<>>, <<>>>>,
                   <<<<Field(n, 0, <<300>>)>>, <<Field(n, 2, OtherInfo)>>>>) :
              n \in WrapperNums}

DecodeInit ==
    /\ now = 0
    /\ secrets = [k \in Keys |-> NoValue]
    /\ dec \in {DecInput(src) : src \in Sources}
    /\ AutoAtRest
    /\ db = Host(AuthJson("a@x.com", "A1"), Blob(dec.data), Blob(dec.data), <<>>)
    /\ calls = [p \in Procs |-> Idle]
    /\ last = NoLast
    /\ nOps = 0
    /\ SwitcherAtRest
    /\ SidebarAtRest
    /\ ExtensionAtRest
    /\ PanelAtRest

WireTypes == 0..7
TargetFields == {1, 3, 6, 16}

DecodeNext ==
    \/ \E o \in 0..Len(dec.data) : AllIdle /\ DecReadVarint(o)
    \/ \E o \in 0..Len(dec.data), w \in WireTypes : AllIdle /\ DecSkipField(o, w)
    \/ \E n \in TargetFields : AllIdle /\ DecFindField(n)
    \/ \E n \in TargetFields : AllIdle /\ DecFindThenParse(n)
    \/ AllIdle /\ DecParseOAuthTokenInfo
    \/ AllIdle /\ DecExtractTokensWithProtobuf
    \/ AllIdle /\ DecGetRefreshToken
    \/ dec.pc = "input" /\ nOps = 0 /\ CaptureStart(1, "a@x.com")
    \/ CaptureAuth(1)
    \/ CaptureRefresh(1)
    \/ CaptureStore(1)

DecodeSpec == DecodeInit /\ [][DecodeNext]_vars

\* The scan of state.vscdb and the capture on a host without binary rows:
\* the host logged in as b@x.com with the access token A2 in its identity
\* row, no record in SecretStorage, and in the file up to
\* MaxMatches matches of the scan's patterns in the order of their offsets:
\* the tokens of the account logged in (A2, R2) and others (A3, R3), and a
\* base64 match that decodes to too short a token.
ScanMatches ==
    {Match(pt, t) : pt \in AccessPatterns, t \in {"A2", "A3"}}
    \cup {Match("base64short", "A4"),
          Match("refresh1", "R2"), Match("refresh2", "R3"),
          Match("refresh3", "R2")}

ScanEmails == {"a@x.com", "b@x.com"}

\* An instant before any record stored here reaches its refresh threshold.
ScanInstants == {60000}

ScanInit ==
    /\ now = 0
    /\ secrets = [k \in Keys |-> NoValue]
    /\ db \in {Host(AuthJson("b@x.com", "A2"), NoRow, NoRow, f) :
                  f \in SeqsUpTo(ScanMatches, MaxMatches)}
    /\ calls = [p \in Procs |-> Idle]
    /\ last = NoLast
    /\ nOps = 0
    /\ SwitcherAtRest
    /\ SidebarAtRest
    /\ ExtensionAtRest
    /\ DecoderAtRest
    /\ AutoAtRest
    /\ PanelAtRest

ScanNext ==
    \/ \E e \in ScanEmails : AllIdle /\ GetTokenStart(1, e)
    \/ GetTokenGet(1)
    \/ GetTokenRecoverStore1(1)
    \/ GetTokenGet2(1)
    \/ \E e \in ScanEmails : AllIdle /\ CaptureStart(1, e)
    \/ CaptureAuth(1)
    \/ CaptureRefresh(1)
    \/ CaptureStore(1)
    \/ Return(1)
    \/ \E t \in ScanInstants : Tick(t)

ScanSpec == ScanInit /\ [][ScanNext]_vars

\* The sidebar's refresh methods by themselves: a@x.com and b@x.com
\* registered, the host logged in as one of them or logged out, and
\* accounts.json and quotas.json as an earlier session left them.
PanelHosts == {LoggedIn, OtherAccount, LoggedOut}

EarlierFlags ==
    {NoFlags,
     [a \in {"b@x.com"} |-> [tier |-> "free", isActive |-> FALSE, refreshLocked |-> TRUE]]}

EarlierQuotas ==
    {NoQuotas,
     [a \in {"a@x.com", "b@x.com"} |->
         [error |-> FALSE, claudeRemaining |-> 80, lastUpdated |-> 0, from |-> "file"]]}

PanelEmails == {"a@x.com", "b@x.com"}

PanelInit ==
    /\ now = 0
    /\ secrets \in EarlierSessions
    /\ db \in PanelHosts
    /\ calls = [p \in Procs |-> Idle]
    /\ last = NoLast
    /\ nOps = 0
    /\ SwitcherAtRest
    /\ accounts = PanelEmails
    /\ files = {AccountsFile(accounts)}
    /\ ex = ExIdle
    /\ ExtensionAtRest
    /\ DecoderAtRest
    /\ AutoAtRest
    /\ ui = UiIdle
    /\ flags \in EarlierFlags
    /\ quotas \in EarlierQuotas

PanelNext ==
    \/ \E e \in PanelEmails : ToggleTier(e)
    \/ RefreshAllStart
    \/ RefreshAllEmail
    \/ RefreshActiveOnlyStart
    \/ RefreshActiveOnlyEmail
    \/ \E e \in PanelEmails : RefreshAccountMessage(e)
    \/ RefreshAccountCall
    \/ RefreshAccountToken
    \/ \E o \in QuotaOutcomes : RefreshAccountQuota(o)
    \/ RefreshEnd
    \/ ActiveQuotaEmail
    \/ ActiveQuotaToken
    \/ ActiveQuotaFetch
    \/ GetTokenGet(1)
    \/ GetTokenRecoverStore1(1)
    \/ GetTokenGet2(1)
    \/ \E d \in PanelHosts : HostWrite(d)

PanelSpec == PanelInit /\ [][PanelNext]_vars

\* The sidebar refreshing single accounts over some time: the quota cache as
\* an earlier session left it, one minute between two refreshes, and each
\* fetch of a quota ending either way.
QuotaInstants == {60000}

QuotaInit ==
    /\ now = 0
    /\ secrets \in EarlierSessions
    /\ db \in PanelHosts
    /\ calls = [p \in Procs |-> Idle]
    /\ last = NoLast
    /\ nOps = 0
    /\ SwitcherAtRest
    /\ accounts = PanelEmails
    /\ files = {AccountsFile(accounts)}
    /\ ex = ExIdle
    /\ ExtensionAtRest
    /\ DecoderAtRest
    /\ AutoAtRest
    /\ ui = UiIdle
    /\ flags = NoFlags
    /\ quotas \in EarlierQuotas

QuotaNext ==
    \/ \E e \in PanelEmails : RefreshAccountMessage(e)
    \/ RefreshAccountCall
    \/ RefreshAccountToken
    \/ \E o \in QuotaOutcomes : RefreshAccountQuota(o)
    \/ RefreshEnd
    \/ GetTokenGet(1)
    \/ GetTokenRecoverStore1(1)
    \/ GetTokenGet2(1)
    \/ \E t \in QuotaInstants : ui = UiIdle /\ Tick(t)

QuotaSpec == QuotaInit /\ [][QuotaNext]_vars

\* The removal of an account while the sidebar's token requests for it are in
\* flight: the requests are started before the message removeAccount is
\* handled, and go on at their own pace while the handler waits for the
\* warning and for SecretStorage.
RemoveEmail == "a@x.com"

RemoveInstants == {0, TTL_MS}

RemoveInit ==
    /\ now \in RemoveInstants
    /\ secrets \in EarlierSessions
    /\ db \in HostRewrites
    /\ calls = [p \in Procs |-> Idle]
    /\ last = NoLast
    /\ nOps = 0
    /\ SwitcherAtRest
    /\ accounts = {RemoveEmail}
    /\ files = {AccountsFile(accounts)}
    /\ ex = ExIdle
    /\ ExtensionAtRest
    /\ DecoderAtRest
    /\ AutoAtRest
    /\ PanelAtRest

RemoveNext ==
    \/ \E p \in Procs : ui = UiIdle /\ GetTokenStart(p, RemoveEmail)
    \/ \E p \in Procs : GetTokenGet(p)
    \/ \E p \in Procs : GetTokenRecoverStore1(p)
    \/ \E p \in Procs : GetTokenGet2(p)
    \/ \E p \in Procs, o \in FetchOutcomes, d \in FetchDelays : GetTokenFetchDone(p, o, d)
    \/ \E p \in Procs : GetTokenRefreshStore(p)
    \/ \E p \in Procs : GetTokenRecoverStore2(p)
    \/ \E p \in Procs : GetTokenGet3(p)
    \/ RemoveAccountMessage(RemoveEmail)
    \/ \E c \in RemoveChoices : RemoveAccountConfirm(c)
    \/ RemoveAccountDelete

RemoveSpec == RemoveInit /\ [][RemoveNext]_vars

\* The auto-accept service from its construction on: the toggles of the
\* user, the automatic start of activate(), CDP present or not at each
\* check, the intervals firing and the WebSockets of two pages.
AutoPages == {"9000:p1", "9000:p2"}

AutoInit ==
    /\ now = 0
    /\ secrets = [k \in Keys |-> NoValue]
    /\ db = LoggedOut
    /\ calls = [p \in Procs |-> Idle]
    /\ last = NoLast
    /\ nOps = 0
    /\ SwitcherAtRest
    /\ SidebarAtRest
    /\ ExtensionAtRest
    /\ DecoderAtRest
    /\ PanelAtRest
    /\ AutoAtRest

AutoNext ==
    \/ ToggleAutoAcceptMessage
    \/ ToggleAutoAcceptCommand
    \/ AutoStartTimeout
    \/ \E id \in 1..(MaxAutoOps + 1), c \in BOOLEAN : StartResolve(id, c)
    \/ \E t \in 1..(MaxAutoOps + 1) : PollFire(t)
    \/ \E id \in AutoPages : PollConnect(id)
    \/ PollEnd
    \/ \E id \in AutoPages : WsOpen(id)
    \/ \E id \in AutoPages : WsError(id)
    \/ \E id \in AutoPages : WsClose(id)

AutoSpec == AutoInit /\ [][AutoNext]_vars

-----------------------------------------------------------------------------
(* What the properties below speak of. *)

\* The getToken invocations that found a credential record under their key
\* and have made their expiry check.
Checked ==
    {p \in Procs : /\ calls[p].pc # "idle"
                   /\ calls[p].op = "getToken"
                   /\ calls[p].first.kind = "cred"
                   /\ calls[p].checkNow >= 0}

\* The refresh threshold of the record an invocation found.
Threshold(c) == c.first.expiresAt - SKEW_MS

\* The invocation returned the access token of the record it found, and
\* entered neither refreshAccessToken nor tryAutoRecovery.
CachedReturn(c) ==
    /\ c.pc = "done"
    /\ c.result = c.first.accessToken
    /\ c.nRefresh = 0
    /\ c.nRecover = 0

-----------------------------------------------------------------------------
(* C1 *)

\* C1 as stated: with a stored credential record, getToken returns the cached
\* access token without refresh or recovery if and only if
\* now < expiresAt - 5 min, and from now = expiresAt - 5 min on (equality
\* included) it enters the refresh exchange before it returns.
C1_RefreshFromThreshold ==
    \A p \in Checked :
        LET c == calls[p]
        IN  /\ CachedReturn(c) <=> c.checkNow < Threshold(c)
            /\ c.checkNow >= Threshold(c) => c.nRefresh = 1

\* C1 amended: with a stored credential record, getToken returns the cached
\* access token without refresh or recovery if and only if
\* now <= expiresAt - 5 min (equality included); for every
\* now > expiresAt - 5 min it enters refreshAccessToken before it returns,
\* and calls the token endpoint there when the record has a refresh token.
C1_CachedUpToThreshold ==
    \A p \in Checked :
        LET c == calls[p]
        IN  /\ CachedReturn(c) <=> c.checkNow <= Threshold(c)
            /\ c.checkNow > Threshold(c) =>
                  /\ c.nRefresh = 1
                  /\ ~Falsy(c.first.refreshToken) => c.nFetch = 1

\* A getToken that ran exactly at the threshold and returned the cached token.
C1_CachedAtThreshold ==
    \E p \in Checked :
        /\ calls[p].checkNow = Threshold(calls[p])
        /\ CachedReturn(calls[p])

-----------------------------------------------------------------------------
(* C2 *)

\* The record the invocation found is past its expiresAt and has a refresh token.
ExpiredWithRefreshToken(c) ==
    /\ c.checkNow > c.first.expiresAt
    /\ ~Falsy(c.first.refreshToken)

\* C2: for a record whose expiresAt is in the past and that has a refresh
\* token, getToken first calls the refresh exchange (no recovery has run while
\* it waits for the endpoint); when the exchange failed, recovery has run
\* exactly once when getToken returns; when it succeeded, recovery never runs.
C2_RefreshThenRecoveryOnce ==
    \A p \in Checked :
        LET c == calls[p]
        IN  ExpiredWithRefreshToken(c) =>
              /\ c.nFetch = 1
              /\ c.pc = "gt_fetch" => c.nRecover = 0
              /\ (c.pc = "done" /\ ~c.refreshOk) => c.nRecover = 1
              /\ c.refreshOk => c.nRecover = 0

\* A getToken on an expired record with a refresh token has returned after a
\* failed exchange and one recovery.
C2_RecoveredAfterFailedRefresh ==
    \E p \in Checked :
        /\ ExpiredWithRefreshToken(calls[p])
        /\ calls[p].pc = "done"
        /\ calls[p].response.kind \in {"neterr", "status"}
        /\ calls[p].nRecover = 1

-----------------------------------------------------------------------------
(* C3 *)

\* The invocation found a record past its threshold, and both its refresh and
\* its recovery failed.
BothFailed(c) ==
    /\ c.pc = "done"
    /\ c.checkNow > Threshold(c)
    /\ c.nRefresh = 1 /\ ~c.refreshOk
    /\ c.nRecover = 1 /\ ~c.recovered

\* C3: when a record exists, is past its refresh threshold, and both the
\* refresh exchange and recovery fail, getToken returns the record's stale
\* accessToken, never null, and SecretStorage is as it was before the call.
C3_StaleTokenWhenBothFail ==
    \A p \in Checked :
        LET c == calls[p]
        IN  BothFailed(c) =>
              /\ c.result = c.first.accessToken
              /\ c.result \notin {NULL, UNDEF}
              /\ secrets = c.before

-----------------------------------------------------------------------------
(* C4 *)

\* C4: when the refresh exchange succeeds, getToken changes only accessToken
\* and expiresAt of the record it found (expiresAt = Date.now() after the
\* exchange + expires_in seconds), keeps refreshToken, email and createdAt,
\* stores the record under the same key and nothing else, and returns the
\* new access token.
C4_RefreshInPlace ==
    \A p \in Checked :
        LET c == calls[p]
        IN  (c.pc = "done" /\ c.refreshOk) =>
              /\ secrets = [c.before EXCEPT ![c.email] =
                               [c.first EXCEPT
                                  !.accessToken = c.response.access_token,
                                  !.expiresAt = c.fetchNow + c.response.expires_in * 1000]]
              /\ c.result = c.response.access_token

\* A getToken has returned a new token after an exchange that took time.
C4_RefreshedLater ==
    \E p \in Checked :
        /\ calls[p].pc = "done"
        /\ calls[p].refreshOk
        /\ calls[p].result \in IssuedTokens
        /\ calls[p].fetchNow > calls[p].checkNow

-----------------------------------------------------------------------------
(* C5 *)

\* The getToken invocations whose first secrets.get found nothing.
FoundNothing ==
    {p \in Procs : /\ calls[p].pc \notin {"idle", "gt_get"}
                   /\ calls[p].op = "getToken"
                   /\ calls[p].first.kind = "none"}

\* C5: when no record exists for the email, getToken runs recovery (once);
\* when recovery found no token it returns null and SecretStorage is as
\* before; when recovery found a token it returns that access token.
C5_RecoveryWhenNoRecord ==
    \A p \in FoundNothing :
        LET c == calls[p]
        IN  /\ c.nRecover = 1
            /\ (c.pc = "done" /\ c.extracted.isNull) =>
                  c.result = NULL /\ secrets = c.before
            /\ (c.pc = "done" /\ ~c.extracted.isNull) =>
                  c.result = c.extracted.accessToken

\* A getToken without a record has returned the token its recovery found.
C5_ReturnedRecovered ==
    \E p \in FoundNothing :
        /\ calls[p].pc = "done"
        /\ ~calls[p].extracted.isNull
        /\ calls[p].result = calls[p].extracted.accessToken

-----------------------------------------------------------------------------
(* C6 *)

\* The invocation follows a getToken for the same email with no write under
\* the key in between, and both made their expiry check before the threshold
\* of the record they found.
SecondInWindow(c) ==
    /\ last.email = c.email
    /\ last.found.kind = "cred"
    /\ last.checkNow >= 0
    /\ last.checkNow < last.found.expiresAt - SKEW_MS
    /\ c.checkNow < Threshold(c)

\* C6: two consecutive getToken calls for the same email, both with
\* now < expiresAt - 5 min and no write to the record in between, return the
\* same token, enter neither refresh nor recovery, and leave the record as
\* the first call found it.
C6_SecondCallCached ==
    \A p \in Checked :
        LET c == calls[p]
        IN  SecondInWindow(c) =>
              /\ c.pc = "done"
              /\ c.result = last.result
              /\ c.nRefresh = 0 /\ c.nRecover = 0 /\ c.nStore = 0
              /\ secrets[c.email] = last.found

\* The second of two getToken calls in the window has returned, later than the first.
C6_SecondReturned ==
    \E p \in Checked :
        /\ SecondInWindow(calls[p])
        /\ calls[p].pc = "done"
        /\ calls[p].checkNow > last.checkNow

-----------------------------------------------------------------------------
(* C7 *)

\* The steps of a getToken invocation in flight.
GetTokenStep(p) ==
    \/ GetTokenGet(p)
    \/ GetTokenRecoverStore1(p)
    \/ GetTokenGet2(p)
    \/ \E o \in FetchOutcomes, d \in FetchDelays : GetTokenFetchDone(p, o, d)
    \/ GetTokenRefreshStore(p)
    \/ GetTokenRecoverStore2(p)
    \/ GetTokenGet3(p)

\* C7: within one getToken call the token endpoint is called at most once and
\* recovery runs at most once, whatever the outcomes; the endpoint is not
\* called when the record has no refreshToken; the call resumes from at most
\* four awaits on I/O, and while it has not returned its next step is enabled.
C7_OnceEachAndBounded ==
    \A p \in Procs :
        LET c == calls[p]
        IN  (c.pc # "idle" /\ c.op = "getToken") =>
              /\ c.nFetch <= 1
              /\ c.nRecover <= 1
              /\ (c.credential.kind = "cred" /\ Falsy(c.credential.refreshToken)) =>
                    c.nFetch = 0
              /\ c.nAwait <= 4
              /\ c.pc # "done" => ENABLED GetTokenStep(p)

\* A getToken has returned after one endpoint call, one recovery and four awaits.
C7_LongestCall ==
    \E p \in Procs :
        /\ calls[p].pc = "done"
        /\ calls[p].op = "getToken"
        /\ calls[p].nFetch = 1
        /\ calls[p].nRecover = 1
        /\ calls[p].nAwait = 4

-----------------------------------------------------------------------------
(* C8 *)

\* The getToken invocations that ran tryAutoRecovery.
Recovering ==
    {p \in Procs : /\ calls[p].pc # "idle"
                   /\ calls[p].op = "getToken"
                   /\ calls[p].nRecover = 1}

\* C8: when extraction succeeds, recovery replaces the whole record of the
\* email by {extracted accessToken, extracted refreshToken,
\* expiresAt = now + 55 min, email, createdAt = now}, whatever the record was,
\* and writes nothing else; when extraction fails it stores nothing.
C8_RecoveryReplacesRecord ==
    \A p \in Recovering :
        LET c == calls[p]
        IN  /\ c.recovered =>
                  secrets = [c.before EXCEPT ![c.email] =
                               CredValue(c.extracted.accessToken, c.extracted.refreshToken,
                                         c.recoverNow + TTL_MS, c.email, c.recoverNow)]
            /\ c.extracted.isNull => (~c.recovered /\ secrets = c.before)

\* A recovery has replaced a record that had a refresh token by one without.
C8_ReplacedRecordWithRefreshToken ==
    \E p \in Recovering :
        /\ calls[p].recovered
        /\ calls[p].first.kind = "cred"
        /\ ~Falsy(calls[p].first.refreshToken)
        /\ Falsy(secrets[calls[p].email].refreshToken)

-----------------------------------------------------------------------------
(* C9 *)

\* The access token of the first strategy that yields one, in the order
\* direct status read, structured decode, byte scan; null when none does.
PipelineToken(d) ==
    LET direct == getAuthStatus(d)
        structured == extractTokensWithProtobuf(d)
        scanned == extractTokensFromDb(d)
    IN  IF ~direct.isNull /\ ~Falsy(direct.apiKey) THEN direct.apiKey
        ELSE IF ~structured.isNull /\ ~Falsy(structured.accessToken)
             THEN structured.accessToken
        ELSE IF ~scanned.isNull THEN scanned.accessToken
        ELSE NULL

\* C9: the extraction that recovery runs tries the direct status read, then
\* the structured decode, then the byte scan, and yields the access token of
\* the first that has one: whenever a getToken runs tryAutoRecovery, what the
\* extraction hands it is the pipeline's token for the host state then, and
\* nothing when the pipeline has none.
C9_RecoveryRunsPipeline ==
    [][\A p \in Procs :
          (/\ calls[p].pc # "idle"
           /\ calls'[p].pc # "idle"
           /\ calls[p].op = "getToken"
           /\ calls'[p].nRecover = calls[p].nRecover + 1)
          => IF PipelineToken(db) = NULL
             THEN calls'[p].extracted.isNull
             ELSE /\ ~calls'[p].extracted.isNull
                  /\ calls'[p].extracted.accessToken = PipelineToken(db)]_vars

-----------------------------------------------------------------------------
(* C10 *)

\* The captureCurrentToken invocations that have returned.
Captured ==
    {p \in Procs : /\ calls[p].pc = "done"
                   /\ calls[p].op = "capture"}

\* The identity record is missing, or lacks email or apiKey.
NoIdentity(auth) == auth.isNull \/ Falsy(auth.email) \/ Falsy(auth.apiKey)

-----------------------------------------------------------------------------
(* C11 *)

\* The getToken and hasToken invocations that have read their key.
HaveRead ==
    {p \in Procs : /\ calls[p].pc \notin {"idle", "gt_get", "ht_get"}
                   /\ calls[p].op \in {"getToken", "hasToken"}}

\* C11: after any sequence of captureCurrentToken, getToken, saveToken and
\* deleteToken calls with emails in any letter case, every key that holds a
\* value is the lower-case form of its email, no two values are held for
\* emails that differ only in case, and a getToken or hasToken reads the value
\* held for the lower-case form of its argument.
C11_KeysLowerCase ==
    /\ \A k \in Keys : secrets[k] # NoValue => k = ToLowerCase(k)
    /\ \A k1, k2 \in Keys :
          (/\ secrets[k1] # NoValue
           /\ secrets[k2] # NoValue
           /\ ToLowerCase(k1) = ToLowerCase(k2)) => k1 = k2
    /\ \A p \in HaveRead :
          calls[p].first = calls[p].before[ToLowerCase(calls[p].email)]

-----------------------------------------------------------------------------
(* C12 *)

\* The hasToken invocations that have returned.
Asked ==
    {p \in Procs : /\ calls[p].pc = "done"
                   /\ calls[p].op = "hasToken"}

\* C12 as stated: hasToken(email) returns true exactly when a record exists
\* for the email and either now < expiresAt or the record has a refreshToken.
C12_TrueIffUnexpiredOrRefreshable ==
    \A p \in Asked :
        LET c == calls[p]
        IN  c.ok <=> /\ c.first.kind = "cred"
                     /\ \/ c.checkNow < c.first.expiresAt
                        \/ ~Falsy(c.first.refreshToken)

\* C12 amended: hasToken(email) returns true exactly when a credential record
\* exists for the email and either now <= expiresAt - 5 min or the record has
\* a refreshToken; it returns false when nothing or a text that is not a
\* credential record is stored, and when the record is past
\* expiresAt - 5 min and has no refreshToken.
C12_TrueIffBeforeThresholdOrRefreshable ==
    \A p \in Asked :
        LET c == calls[p]
        IN  c.ok <=> /\ c.first.kind = "cred"
                     /\ \/ c.checkNow <= c.first.expiresAt - SKEW_MS
                        \/ ~Falsy(c.first.refreshToken)

\* hasToken has returned false for a record without refresh token that is
\* past its threshold and not yet past its expiresAt.
C12_FalseInsideSkew ==
    \E p \in Asked :
        /\ calls[p].first.kind = "cred"
        /\ Falsy(calls[p].first.refreshToken)
        /\ calls[p].checkNow > calls[p].first.expiresAt - SKEW_MS
        /\ calls[p].checkNow < calls[p].first.expiresAt
        /\ ~calls[p].ok

-----------------------------------------------------------------------------
(* Properties of the account switcher, under SwitchSpec. *)

\* A switchToAccount that has returned true for an email whose snapshot was
\* saved in this run.
SwitchedBack ==
    /\ sw.pc = "done"
    /\ sw.op = "switchToAccount"
    /\ sw.result = TRUE
    /\ sw.email \in DOMAIN saved

SwitchedWithoutSnapshot ==
    /\ sw.pc = "done"
    /\ sw.op = "switchToAccount"
    /\ sw.email \notin DOMAIN sw.before

\* C14: switchToAccount for an email without a snapshot returns false, runs no
\* sqlite3 and writes nothing (the row is left to the host), and leaves the
\* snapshot map and what SecretStorage holds as they were.
C14_NoSnapshotNoWrite ==
    SwitchedWithoutSnapshot =>
        /\ sw.result = FALSE
        /\ ~sw.ran
        /\ sw.nWrites = 0
        /\ sw.rowAfter = sw.rowBefore
        /\ SnapshotMap = sw.before
        /\ snapshotsSecret = sw.storedBefore

\* Such a call while there are snapshots of other emails: the error message
\* was shown.
C14_RefusedAmongOthers ==
    /\ SwitchedWithoutSnapshot
    /\ DOMAIN sw.before # {}
    /\ sw.errorShown
    /\ sw.result = FALSE

\* A switchToAccount that has returned after its sqlite3 reported an error.
WriteFailed ==
    /\ sw.pc = "done"
    /\ sw.op = "switchToAccount"
    /\ sw.ran
    /\ ~sw.success

\* C15: when the write of the row reports an error, switchToAccount returns
\* false, the row holds what it held before the write, and neither the reload
\* prompt is shown nor the window reloaded.
C15_FailedWriteLeavesRow ==
    WriteFailed =>
        /\ sw.result = FALSE
        /\ sw.nWrites = 0
        /\ sw.rowAfter = sw.rowAtExec
        /\ ~sw.prompted
        /\ ~sw.reloaded

\* A failed write of a snapshot that was found, while the row held a text.
C15_FailedOnExistingRow ==
    /\ WriteFailed
    /\ sw.found
    /\ sw.rowAtExec.kind = "text"
    /\ sw.result = FALSE

\* A saveSnapshot that has returned.
SaveReturned == sw.pc = "done" /\ sw.op = "saveSnapshot"

\* The key each text drawn is to be saved under: its email member, else its
\* name member, else 'unknown' (no member of either name, or no JSON at all,
\* as the texts are that a switch has written without their double quotes).
KeyOf(text) ==
    IF text = IdentityA THEN "a@x.com"
    ELSE IF text = IdentityB THEN "b@x.com"
    ELSE IF text = IdentityNameOnly THEN "bob"
    ELSE IF text = NameWithBlank THEN "Bob B"
    ELSE "unknown"

\* C16: a saveSnapshot that returns true has stored {email, blob, savedAt},
\* the blob being the text it read from the row, under the email read from
\* the blob (email member, else name member, else 'unknown'), in place of any
\* earlier snapshot under that key, in the map and in SecretStorage; when the
\* row is absent or empty it returns false and stores nothing; and at all
\* times every snapshot is kept under its own email field.
C16_SavedUnderItsEmail ==
    /\ (SaveReturned /\ sw.result = TRUE) =>
            LET key == KeyOf(sw.authStatus)
            IN  /\ sw.rowBefore.kind = "text"
                /\ sw.authStatus = Trim(sw.rowBefore.text)
                /\ DOMAIN SnapshotMap = DOMAIN sw.before \cup {key}
                /\ SnapshotMap[key] = AccountSnapshot(key, sw.authStatus, sw.savedAt)
                /\ sw.savedAt >= 0
                /\ snapshotsSecret = SnapshotsValue(SnapshotMap)
    /\ (SaveReturned /\ (sw.rowBefore.kind # "text" \/ sw.rowBefore.text = <<>>)) =>
            sw.result = FALSE
    /\ (SaveReturned /\ sw.result = FALSE) =>
            /\ SnapshotMap = sw.before
            /\ snapshotsSecret = sw.storedBefore
    /\ \A k \in DOMAIN SnapshotMap : SnapshotMap[k].email = k
    /\ \A k \in DOMAIN Loaded : Loaded[k].email = k

\* A snapshot saved under the name member of its blob, in place of an earlier
\* snapshot under that key.
C16_OverwroteUnderName ==
    /\ SaveReturned
    /\ sw.result = TRUE
    /\ sw.authStatus = NameWithBlank
    /\ sw.email \in DOMAIN sw.before
    /\ sw.before[sw.email] # SnapshotMap[sw.email]

\* A deleteSnapshot that has returned.
DeleteReturned == sw.pc = "done" /\ sw.op = "deleteSnapshot"

\* What each invocation may have done to the snapshots by now, in the map
\* and in SecretStorage.
SnapshotFrame ==
    /\ (DeleteReturned /\ sw.email \in DOMAIN sw.before) =>
            /\ sw.result = TRUE
            /\ SnapshotMap = DeleteKey(sw.before, sw.email)
            /\ snapshotsSecret = SnapshotsValue(SnapshotMap)
    /\ (DeleteReturned /\ sw.email \notin DOMAIN sw.before) =>
            /\ sw.result = FALSE
            /\ SnapshotMap = sw.before
            /\ snapshotsSecret = sw.storedBefore
    /\ (sw.pc # "idle" /\ sw.op = "saveSnapshot") =>
            \A k \in DOMAIN sw.before :
                \/ (sw.authStatus # <<>> /\ k = sw.email)
                \/ (k \in DOMAIN SnapshotMap /\ SnapshotMap[k] = sw.before[k])
    /\ (sw.pc # "idle" /\ sw.op = "switchToAccount") =>
            /\ SnapshotMap = sw.before
            /\ snapshotsSecret = sw.storedBefore

\* A snapshot that is in the map stays in it, unless the step is one of a
\* deleteSnapshot for its email.
KeptUnlessDeleted ==
    \A k \in DOMAIN SnapshotMap :
        \/ k \in DOMAIN SnapshotMap'
        \/ (sw'.pc # "idle" /\ sw'.op = "deleteSnapshot" /\ sw'.email = k)

\* C17: deleteSnapshot(email) removes exactly the snapshot of that email and
\* returns true, or returns false and changes nothing when there is none;
\* saveSnapshot and deleteSnapshot leave the snapshots of other emails as they
\* were; switchToAccount leaves the whole map as it was; and no snapshot
\* leaves the map except in a deleteSnapshot for its email.
C17_OnlyDeleteRemoves == []SnapshotFrame /\ [][KeptUnlessDeleted]_vars

\* A deleteSnapshot that removed one snapshot and left another in the map.
C17_DeletedOneOfTwo ==
    /\ DeleteReturned
    /\ sw.result = TRUE
    /\ sw.email \in DOMAIN sw.before
    /\ DOMAIN SnapshotMap # {}

-----------------------------------------------------------------------------
(* Properties of concurrent calls. *)

\* The getToken invocations that have started and not yet resolved: each is
\* suspended on an await of SecretStorage, of the token endpoint or of the
\* recovery's store.
Suspended ==
    {p \in Procs : calls[p].pc \notin {"idle", "done"} /\ calls[p].op = "getToken"}

\* C18: under the timers of the extension and the webview and the commands of
\* the user, no two getToken invocations for one email are in flight at the
\* same time.
C18_OneGetTokenPerEmail ==
    \A p, q \in Suspended : calls[p].email = calls[q].email => p = q

\* The getToken invocations of the race that have started.
Racers == {p \in Procs : calls[p].pc # "idle"}

\* The results of the refreshes and recoveries of the calls so far, as the
\* pair of access token and expiry each one gives, and the pair of the record
\* that was there before the first call.
Produced ==
    {<<calls[p].response.access_token,
       calls[p].fetchNow + calls[p].response.expires_in * 1000>> :
        p \in {q \in Racers : calls[q].response.kind = "ok"}}
    \cup {<<calls[p].extracted.accessToken, calls[p].recoverNow + TTL_MS>> :
              p \in {q \in Racers : ~calls[q].extracted.isNull}}

Stale == {<<"A1", TTL_MS>>}

\* The record stored is whole: its access token and its expiry are one
\* result's; and a call that has returned, returned the access token of one
\* of the results or the stale one.
WholeRecord ==
    LET record == secrets[RaceEmail]
    IN  /\ record.kind = "cred"
        /\ <<record.accessToken, record.expiresAt>> \in Produced \cup Stale
        /\ \A p \in Racers :
               calls[p].pc = "done" =>
                   \E pair \in Produced \cup Stale : calls[p].result = pair[1]

\* A step that changes the record is the store of one call, and leaves the
\* record that call built: what it read with the access token and expiry of
\* its own refresh, or the record of its own recovery.
LastWriterWins ==
    secrets' # secrets =>
        \E p \in Racers :
            LET c == calls[p]
                record == secrets'[RaceEmail]
            IN  /\ calls'[p].nStore = c.nStore + 1
                /\ \A k \in Keys \ {RaceEmail} : secrets'[k] = secrets[k]
                /\ \/ /\ c.pc = "gt_ref_store"
                      /\ c.response.kind = "ok"
                      /\ record = [c.first EXCEPT
                                       !.accessToken = c.response.access_token,
                                       !.expiresAt = c.fetchNow + c.response.expires_in * 1000]
                   \/ /\ c.pc = "gt_rec2_store"
                      /\ ~c.extracted.isNull
                      /\ record = CredValue(c.extracted.accessToken, c.extracted.refreshToken,
                                            c.recoverNow + TTL_MS, RaceEmail, c.recoverNow)

\* C19: under every interleaving of two getToken calls for one email on an
\* expired record, the record stored is at all times a whole record of one
\* call's refresh or recovery (or the one found), every change of it is one
\* call's store of the record that call built, so that the record left is the
\* last writer's, and each call returns a token of one of the refreshes or
\* recoveries or the stale token.
C19_WholeRecordLastWriter == []WholeRecord /\ [][LastWriterWins]_vars

\* Both calls read the expired record before either stored, the first
\* stored its refreshed record and the second then stored its recovered one.
C19_RefreshOverwrittenByRecovery ==
    /\ \A p \in Procs : calls[p].pc = "done" /\ calls[p].nStore = 1
    /\ calls[1].first = calls[2].first
    /\ calls[1].refreshOk
    /\ calls[2].recovered
    /\ secrets[RaceEmail] = calls[2].pending

-----------------------------------------------------------------------------
(* C20 *)

\* The token texts a file holds.
TokensIn(f) == {f.tokens[k] : k \in DOMAIN f.tokens}

\* C20: after any sequence of captureCurrentToken, getToken, saveSnapshot,
\* deleteSnapshot, exportData and importData, no file the extension has
\* written contains a token (no file it writes has a member that holds an
\* identity blob): secrets are persisted through SecretStorage only.
C20_NoSecretInFiles == \A f \in files : TokensIn(f) = {}

-----------------------------------------------------------------------------
(* C21 *)

MinOf(S) == CHOOSE x \in S : \A y \in S : x <= y

\* The length-delimited fields numbered n among fs, by their places.
Delimited(fs, n) == {i \in 1..Len(fs) : fs[i].num = n /\ fs[i].wire = 2}

\* The string whose bytes are value.
Str(value) == Join(CHOOSE t \in Strings : Bytes(t) = value)

\* What an inner message holds: of a wrapper's payload (empty, or the
\* sample), and of a sequence of inner fields, where a later field 1 or 3
\* replaces an earlier one.
NoInfo == [accessToken |-> UNDEF, refreshToken |-> UNDEF]

InfoOfPayload(payload) ==
    IF payload = SampleInfo
    THEN [accessToken |-> Join(SampleT), refreshToken |-> Join(SampleR)]
    ELSE NoInfo

LastString(fs, n) ==
    IF Delimited(fs, n) = {} THEN UNDEF ELSE Str(fs[MaxOf(Delimited(fs, n))].value)

\* The refresh token a capture is to find in the buffer at hand: the one of
\* the first wrapper (field 1) among the fields the buffer encodes; none in
\* a buffer that encodes no wrapper, is an inner message or is raw bytes;
\* and of a buffer made around two strings with a wrapper numbered 1, the
\* second string unless it is empty.
RefreshTokenAtHand ==
    IF dec.kind = "outer" /\ Delimited(dec.fields, 1) # {}
    THEN InfoOfPayload(dec.fields[MinOf(Delimited(dec.fields, 1))].value).refreshToken
    ELSE IF dec.kind = "wrapped" /\ dec.num = 1 /\ dec.strings[2] # <<>>
         THEN Join(dec.strings[2])
         ELSE UNDEF

-----------------------------------------------------------------------------
(* C22 *)

\* C22: a buffer whose wrapper (field 6 of the default schema, field 1 of
\* the unified one) holds an inner message with field 1 = T and field 3 = R
\* decodes, by findField and then parseOAuthTokenInfo, to accessToken = T
\* and refreshToken = R exactly, whatever other well-formed fields stand
\* around the two strings and around the wrapper; so does
\* extractTokensWithProtobuf on a row that holds such a buffer of the
\* default schema.
C22_RoundTrip ==
    dec.kind = "wrapped" =>
        LET exactly == [isNull |-> FALSE, accessToken |-> Join(dec.strings[1]),
                        refreshToken |-> Join(dec.strings[2])]
        IN  /\ (dec.op = "findThenParse" /\ dec.arg = dec.num) => dec.out = exactly
            /\ (dec.op = "extractTokensWithProtobuf" /\ dec.num = 6) => dec.out = exactly

\* The wrapper of the unified schema, between two other fields, has been
\* decoded to an empty access token and the refresh token R1, the inner
\* message holding field 3 before field 1.
C22_DecodedUnifiedWrapper ==
    /\ dec.kind = "wrapped"
    /\ dec.op = "findThenParse"
    /\ dec.num = 1
    /\ dec.arg = 1
    /\ Len(dec.fields) = 3
    /\ dec.fields[2].value[1] = Tag(3, 2)
    /\ dec.strings = <<<<>>, SampleR>>
    /\ dec.out.accessToken = ""
    /\ dec.out.refreshToken = "R1"

-----------------------------------------------------------------------------
(* C23 *)

\* The buffer at hand is the encoding of its fields and nothing else.
WellFormed == dec.kind \in {"outer", "wrapped"} /\ dec.tail = <<>>

InsertAt(fs, i, f) == SubSeq(fs, 1, i) \o <<f>> \o SubSeq(fs, i + 1, Len(fs))

\* What findField is to give for field n of the fields fs.
FirstDelimited(fs, n) ==
    IF Delimited(fs, n) = {}
    THEN [kind |-> "absent"]
    ELSE [kind |-> "found", payload |-> fs[MinOf(Delimited(fs, n))].value]

\* C23: on the encoding of a sequence of fields findField(buf, n) returns
\* the payload of the first length-delimited field numbered n at the top
\* level, and absent when there is none; and it returns the same when one
\* more well-formed field (varint, 64-bit, length-delimited or 32-bit) of
\* another number, or a field n that is not length-delimited, is inserted
\* at any place before or after.
C23_FirstDelimitedOccurrence ==
    (dec.op = "findField" /\ WellFormed) =>
        /\ dec.out = FirstDelimited(dec.fields, dec.arg)
        /\ \A f \in Fields \cup InnerFields, i \in 0..Len(dec.fields) :
               ~(f.num = dec.arg /\ f.wire = 2) =>
                   findField(Encode(InsertAt(dec.fields, i, f)), dec.arg) = dec.out

\* findField(buf, 6) has returned the payload of the second of three
\* fields numbered 6, the first being a varint and the third a
\* length-delimited field with another payload.
C23_FoundBetweenTwoOthers ==
    /\ dec.op = "findField"
    /\ dec.arg = 6
    /\ WellFormed
    /\ Len(dec.fields) = 3
    /\ \A i \in 1..3 : dec.fields[i].num = 6
    /\ dec.fields[1].wire = 0
    /\ dec.fields[3].wire = 2
    /\ dec.fields[3].value # dec.fields[2].value
    /\ dec.out = [kind |-> "found", payload |-> dec.fields[2].value]

-----------------------------------------------------------------------------
(* C24 *)

\* Where field i of the fields fs starts in their encoding (the end of the
\* buffer for i = Len(fs) + 1), and where its tag ends.
StartOf(fs, i) == Len(Encode(SubSeq(fs, 1, i - 1)))

TagEnd(fs, i) == StartOf(fs, i) + Len(EncodeVarint(Tag(fs[i].num, fs[i].wire)))

\* Reading a tag and skipping its field, again and again from offset: the
\* offset reached at or past the end of the buffer, -1 when a step fails.
RECURSIVE Walk(_, _)
Walk(data, offset) ==
    IF offset >= Len(data)
    THEN offset
    ELSE LET t == readVarint(data, offset)
         IN  IF ~t.ok
             THEN -1
             ELSE LET s == skipField(data, t.next, t.value % 8)
                  IN  IF s.ok THEN Walk(data, s.next) ELSE -1

\* C24: on the encoding of a sequence of fields skipField, called after
\* the tag of a field with that field's wire type, returns the offset at
\* which the next field starts (the length of the buffer after the last
\* field); reading a tag and skipping its field again and again from
\* offset 0 ends with the offset equal to the length of the buffer; and on
\* any buffer at any offset skipField fails with 'Unknown wire type' for
\* every wire type outside {0, 1, 2, 5}.
C24_SkipsOneField ==
    /\ (dec.op = "skipField" /\ WellFormed) =>
           \A i \in 1..Len(dec.fields) :
               (dec.offset = TagEnd(dec.fields, i) /\ dec.arg = dec.fields[i].wire) =>
                   dec.out = [ok |-> TRUE, next |-> StartOf(dec.fields, i + 1)]
    /\ (dec.op = "skipField" /\ WellFormed) => Walk(dec.data, 0) = Len(dec.data)
    /\ (dec.op = "skipField" /\ dec.arg \notin {0, 1, 2, 5}) =>
           dec.out = Throw("Unknown wire type")

\* skipField has stepped over a filled length-delimited field that another
\* field follows.
C24_SkippedDelimitedField ==
    /\ dec.op = "skipField"
    /\ WellFormed
    /\ Len(dec.fields) >= 2
    /\ dec.fields[1].wire = 2
    /\ dec.fields[1].value # <<>>
    /\ dec.offset = TagEnd(dec.fields, 1)
    /\ dec.arg = 2
    /\ dec.out.ok
    /\ dec.out.next = StartOf(dec.fields, 2)
    /\ dec.out.next < Len(dec.data)

-----------------------------------------------------------------------------
(* C25 *)

\* The offsets from offset on at which a byte with a clear high bit stands.
Ends(data, offset) == {k \in offset..(Len(data) - 1) : data[k + 1] < 128}

\* The sum of (byte_i & 0x7f) * 2^(7i) over the bytes at offset .. upTo.
RECURSIVE GroupSum(_, _, _)
GroupSum(data, offset, upTo) ==
    IF upTo < offset
    THEN 0
    ELSE GroupSum(data, offset, upTo - 1)
             + (data[upTo + 1] % 128) * Pow2(7 * (upTo - offset))

\* C25: readVarint(buf, offset) returns the sum of (byte_i & 0x7f) * 2^(7i)
\* over the bytes from offset up to and including the first byte whose
\* high bit is clear, together with the offset just past that byte; and
\* it fails, with 'Incomplete varint', exactly when no byte with a clear
\* high bit stands between offset and the end of the buffer.
C25_VarintValue ==
    dec.op = "readVarint" =>
        IF Ends(dec.data, dec.offset) = {}
        THEN dec.out = Throw("Incomplete varint")
        ELSE LET upTo == MinOf(Ends(dec.data, dec.offset))
             IN  dec.out = [ok |-> TRUE,
                            value |-> GroupSum(dec.data, dec.offset, upTo),
                            next |-> upTo + 1]

\* readVarint has read a varint of two bytes that does not start the
\* buffer, both with bits set among the low seven.
C25_ReadTwoBytes ==
    /\ dec.op = "readVarint"
    /\ dec.offset = 1
    /\ Len(dec.data) = 3
    /\ dec.data[2] = 255
    /\ dec.data[3] = 10
    /\ dec.out = [ok |-> TRUE, value |-> 127 + 10 * 128, next |-> 3]

-----------------------------------------------------------------------------
(* C26 *)

\* token is the token of the match of greatest offset among the matches of
\* patterns in file.
Greatest(file, patterns, token) ==
    \E i \in 1..Len(file) :
        /\ file[i].pattern \in patterns
        /\ file[i].token = token
        /\ \A j \in (i + 1)..Len(file) : file[j].pattern \notin patterns

Scanned(p) == calls[p].pc # "idle" /\ calls[p].op = "getToken" /\ calls[p].nRecover > 0

\* C26: extractTokensFromDb returns as accessToken the match of greatest
\* offset among the access-token matches (direct, and base64 that decode
\* to a token long enough), as refreshToken the match of greatest offset
\* among the refresh-token matches, none when there is no such match, and
\* null when there is no access-token match, refresh-token matches or not.
C26_GreatestOffsetWins ==
    \A p \in Procs :
        Scanned(p) =>
            LET tokens == calls[p].extracted
                none == \A i \in 1..Len(db.file) : db.file[i].pattern \notin AccessPatterns
            IN  IF none
                THEN tokens = NoTokens /\ calls[p].result = NULL
                ELSE /\ Greatest(db.file, AccessPatterns, tokens.accessToken)
                     /\ \/ Greatest(db.file, RefreshPatterns, tokens.refreshToken)
                        \/ /\ tokens.refreshToken = UNDEF
                           /\ \A i \in 1..Len(db.file) :
                                  db.file[i].pattern \notin RefreshPatterns

\* A scan has taken the base64 match that follows a direct match, both
\* before a refresh-token match.
C26_TookLaterBase64 ==
    /\ Scanned(1)
    /\ db.file = <<Match("direct", "A2"), Match("base64", "A3"), Match("refresh2", "R3")>>
    /\ calls[1].pc = "done"
    /\ calls[1].extracted = [isNull |-> FALSE, accessToken |-> "A3", refreshToken |-> "R3"]

-----------------------------------------------------------------------------
(* C27 *)

\* The identity row holds {email, apiKey} as JSON and neither binary row
\* exists.
IdentityOnly ==
    /\ db.authStatus.kind = "json"
    /\ db.oauthToken = NoRow
    /\ db.stateValue = NoRow

\* The credential of the identity row, made at instant t.
IdentityCredential(t) ==
    CredValue(db.authStatus.apiKey, UNDEF, t + TTL_MS, ToLowerCase(db.authStatus.email), t)

\* C27: with the JSON identity {email, apiKey} in the store and no binary
\* row, the status read gives apiKey as it stands as the access token and
\* no refresh token is found, and captureCurrentToken makes of the two the
\* credential with expiresAt = now + 55 minutes and stores exactly that
\* under the identity's email.
C27_IdentityOnlyCapture ==
    /\ [](IdentityOnly =>
             \A p \in Procs :
                 (calls[p].pc = "done" /\ calls[p].op = "capture") =>
                     /\ calls[p].ok
                     /\ calls[p].auth.apiKey = db.authStatus.apiKey
                     /\ calls[p].pending.accessToken = db.authStatus.apiKey
                     /\ calls[p].pending.refreshToken = UNDEF
                     /\ secrets[ToLowerCase(db.authStatus.email)] = calls[p].pending)
    /\ [][\A p \in Procs :
              (IdentityOnly /\ calls[p].pc = "cap_refresh" /\ calls'[p].pc # "cap_refresh") =>
                  /\ calls'[p].pc = "cap_store"
                  /\ calls'[p].pending = IdentityCredential(now)]_vars

\* A capture asked for a@x.com at instant 60000 has stored the credential
\* of the identity row of b@x.com, which expires at 3360000.
C27_CapturedAtLaterInstant ==
    /\ IdentityOnly
    /\ calls[1].pc = "done"
    /\ calls[1].op = "capture"
    /\ calls[1].email = "a@x.com"
    /\ now = 60000
    /\ secrets["b@x.com"] = CredValue("A2", UNDEF, 3360000, "b@x.com", 60000)

-----------------------------------------------------------------------------
(* C28 *)

\* C28: with at least one snapshot saved the command rerevolve.switchAccount
\* offers exactly the saved emails and calls switchToAccount with the one
\* chosen; the message getSnapshots posts exactly the saved emails; and
\* the warning of no saved snapshots is shown only when none is saved.
C28_OffersSavedSnapshots ==
    ui.pc = "done" =>
        /\ ui.emails = ui.saved
        /\ ui.warned => ui.saved = {}
        /\ (ui.op = "switchAccount" /\ ui.selected # UNDEF) =>
               (sw.pc # "idle" /\ sw.op = "switchToAccount" /\ sw.email = ui.selected)

-----------------------------------------------------------------------------
(* C29 *)

\* A getToken for the account email starts in this step.
TokenRequested(email) ==
    /\ calls[1].pc = "idle"
    /\ calls'[1].pc # "idle"
    /\ ToLowerCase(calls'[1].email) = ToLowerCase(email)

\* A fetchQuota for the account email resolves in this step.
QuotaFetched(email) ==
    /\ ui.pc \in {"quota", "aq_quota"}
    /\ ui'.pc # ui.pc
    /\ ToLowerCase(ui.email) = ToLowerCase(email)

QuotaKept(email) == IF email \in DOMAIN quotas THEN quotas[email] ELSE NULL

\* C29: for an account whose refreshLocked flag is true, refreshAll,
\* refreshActiveOnly and refreshAccount request no token and fetch no
\* quota, and its entry of the quota cache stays as it is.
C29_LockedNotRefreshed ==
    [][\A a \in accounts :
          Account(a).refreshLocked =>
              /\ ~TokenRequested(a)
              /\ ~QuotaFetched(a)
              /\ QuotaKept(a)' = QuotaKept(a)]_vars

-----------------------------------------------------------------------------
(* C30 *)

\* Every token the scan can match in the file is one of the account logged
\* in: its access token, the apiKey of the identity row, or its refresh
\* token R2.
OnlyTokensOfActive ==
    \A i \in 1..Len(db.file) : db.file[i].token \in {db.authStatus.apiKey, "R2"}

\* C30: a token that getToken(email) stores and returns through recovery
\* belongs to email: when the host's store holds tokens of another account
\* only, the one logged in, a getToken(email) that found no record returns
\* null and leaves no record under email.
C30_RecoveredTokenBelongs ==
    \A p \in Procs :
        (/\ calls[p].pc = "done"
         /\ calls[p].op = "getToken"
         /\ calls[p].first = NoValue
         /\ getCurrentLoggedInEmail(db) # NULL
         /\ getCurrentLoggedInEmail(db) # ToLowerCase(calls[p].email)
         /\ OnlyTokensOfActive) =>
            /\ calls[p].result = NULL
            /\ secrets[calls[p].email] = NoValue

-----------------------------------------------------------------------------
(* C31 *)

\* The getToken in slot p has returned, and the fetch of its refresh was
\* rejected: a network error.
NetworkErrorCall(p) ==
    /\ calls[p].pc = "done"
    /\ calls[p].op = "getToken"
    /\ calls[p].response.kind = "neterr"

\* C31: a getToken whose refresh exchange failed on a network error leaves
\* the record's refreshToken as it was: when the call has returned, the
\* record under its email holds the refresh token the call read, also when
\* the recovery that followed stored an extraction without a refresh token.
C31_NetworkErrorKeepsRefreshToken ==
    \A p \in Procs :
        NetworkErrorCall(p) =>
            /\ secrets[calls[p].email].kind = "cred"
            /\ secrets[calls[p].email].refreshToken = calls[p].credential.refreshToken

-----------------------------------------------------------------------------
(* C32 *)

\* C32: switchToAccount returns true only if the row antigravityAuthStatus
\* holds the snapshot's blob once its sqlite3 has run, also when the table
\* had no such row at the moment of the switch.
C32_TrueOnlyIfRowHoldsBlob ==
    (/\ sw.pc = "done"
     /\ sw.op = "switchToAccount"
     /\ sw.result = TRUE) =>
        sw.rowAfter = TextRow(sw.authStatus)

-----------------------------------------------------------------------------
(* C33 *)

\* The handler of removeAccount has ended, and its deleteToken with it.
Removed == ui.pc = "done" /\ ui.op = "removeAccount" /\ ui.removed

\* C33: once the deleteToken of a removal has completed, SecretStorage holds
\* no credential record for that email as long as no call of the token
\* service is started for it afterwards, also when a getToken for the email
\* was awaiting its refresh or its recovery while the delete ran.
C33_NoRecordAfterRemoval ==
    Removed => secrets[ui.email] = NoValue

-----------------------------------------------------------------------------
(* C34 *)

\* C34: every credential record in SecretStorage, stored by a capture, a
\* refresh or a recovery, has an accessToken that is a non-empty string, and
\* what a getToken that read such a record returns is null or a non-empty
\* string, also when the token endpoint answered ok with a body that has no
\* access_token.
C34_AccessTokenNonEmpty ==
    /\ \A k \in Keys : secrets[k].kind = "cred" => ~Falsy(secrets[k].accessToken)
    /\ \A p \in Procs :
           (/\ calls[p].pc = "done"
            /\ calls[p].op = "getToken"
            /\ calls[p].credential.kind = "cred"
            /\ calls[p].result # NULL) => ~Falsy(calls[p].result)

-----------------------------------------------------------------------------
(* C35 *)

\* The snapshot map a saveSnapshot or deleteSnapshot that returned true has
\* made of the map it started from.
ChangedMap ==
    IF sw.op = "saveSnapshot"
    THEN SetSnapshot(sw.before, sw.email, AccountSnapshot(sw.email, sw.authStatus, sw.savedAt))
    ELSE DeleteKey(sw.before, sw.email)

\* C35: saveSnapshot and deleteSnapshot return true only when SecretStorage
\* holds the changed snapshot map, and between the invocations of the
\* switcher the cache, once filled, is the map SecretStorage holds, also
\* after an invocation whose secrets.store was rejected.
C35_TrueOnlyIfPersisted ==
    /\ (/\ sw.pc = "done"
        /\ sw.op \in {"saveSnapshot", "deleteSnapshot"}
        /\ sw.result = TRUE) => Loaded = ChangedMap
    /\ (sw.pc \in {"idle", "done"} /\ ~snapshotsCache.isNull) => snapshotsCache.map = Loaded

-----------------------------------------------------------------------------
(* C36 *)

\* The last toggle() has run its course: its stop() has returned, or the
\* start() it made has ended.
ToggleSettled == aa.toggle.pc = "settled"

\* C36: toggle() returns the enabled state its toggle leads to, true from
\* disabled with CDP available and false from enabled, and the message
\* autoAcceptStatus that the sidebar posts after it carries that state.
C36_ToggleReturnsResultingState ==
    ToggleSettled =>
        /\ aa.toggle.returned = aa.toggle.result
        /\ aa.toggle.posted \in {UNDEF, aa.toggle.result}

-----------------------------------------------------------------------------
(* C37 *)

\* C37: at most one interval of poll is set at any time, one is set only
\* while the service is enabled, and while it is disabled (from the return
\* of stop() to the next start) none is set and the connection map is
\* empty, also when start() or toggle() is called a second time before the
\* first check of CDP has resolved and when a WebSocket opens after stop().
C37_OnePollTimerWhileEnabled ==
    /\ Cardinality(aa.timers) <= 1
    /\ aa.timers # {} => aa.enabled
    /\ ~aa.enabled => aa.connections = {}

-----------------------------------------------------------------------------
(* C38 *)

\* refreshAccount takes the step that follows its fetchQuota.
QuotaStep == ui.pc = "quota" /\ ui'.pc # "quota"

\* The cache holds a result without error for the account being refreshed.
HasGoodQuota == ui.email \in DOMAIN quotas /\ ~quotas[ui.email].error

\* C38: when fetchQuota resolves to an error result (error set and
\* claudeRemaining < 0) and the cache holds a result without error for the
\* email, refreshAccount leaves every member of that result as it is but
\* lastUpdated, which becomes the present instant; in every other case the
\* entry of the email becomes the new result.  No other entry changes.
C38_ErrorKeepsCachedQuota ==
    [][QuotaStep =>
          LET e == ui.email
              quota == ui'.fetched
          IN  /\ DOMAIN quotas' = DOMAIN quotas \cup {e}
              /\ \A a \in DOMAIN quotas \ {e} : quotas'[a] = quotas[a]
              /\ IF quota.error /\ quota.claudeRemaining < 0 /\ HasGoodQuota
                 THEN quotas'[e] = [quotas[e] EXCEPT !.lastUpdated = now]
                 ELSE quotas'[e] = quota]_vars

\* An error result came a minute after the start for an account whose quota
\* of the earlier session is still in the cache, with a new lastUpdated.
C38_KeptWithNewTimestamp ==
    /\ ui.pc = "loop"
    /\ ui.op = "refreshAccount"
    /\ ui.fetched.error
    /\ ui.fetched.claudeRemaining < 0
    /\ ui.email \in DOMAIN quotas
    /\ quotas[ui.email] =
           [error |-> FALSE, claudeRemaining |-> 80, lastUpdated |-> 60000, from |-> "file"]

-----------------------------------------------------------------------------
(* C39 *)

\* The length the first length-delimited field numbered n declares, for a
\* buffer in which findField has found one.
RECURSIVE DeclaredLength(_, _, _)
DeclaredLength(data, n, offset) ==
    LET t == readVarint(data, offset)
    IN  IF t.value \div 8 = n /\ t.value % 8 = 2
        THEN readVarint(data, t.next).value
        ELSE DeclaredLength(data, n, skipField(data, t.next, t.value % 8).next)

\* The strings of fields 1 and 3 read up to the first length-delimited
\* field whose declared length extends past the end of the buffer.
RECURSIVE WholeFieldsLoop(_, _, _)
WholeFieldsLoop(data, offset, info) ==
    IF offset >= Len(data)
    THEN info
    ELSE LET t == readVarint(data, offset)
             l == readVarint(data, t.next)
             s == skipField(data, t.next, t.value % 8)
         IN  IF ~t.ok \/ ~s.ok \/ s.next > Len(data)
             THEN info
             ELSE WholeFieldsLoop(data, s.next,
                    IF t.value % 8 # 2 THEN info
                    ELSE LET value == SubSeq(data, l.next + 1, l.next + l.value)
                         IN  CASE t.value \div 8 = 1 ->
                                    [info EXCEPT !.accessToken = BufferToString(value)]
                               [] t.value \div 8 = 3 ->
                                    [info EXCEPT !.refreshToken = BufferToString(value)]
                               [] OTHER -> info)

\* C39: findField never returns a payload shorter than the length its field
\* declares, and parseOAuthTokenInfo returns the strings of the fields it
\* read whole: a field whose declared length extends past the end of the
\* buffer is absent, or ends the decoding with what was read before it, and
\* is never returned cut at the end of the buffer.
C39_NoClippedPayload ==
    /\ (dec.op = "findField" /\ dec.out.kind = "found") =>
           Len(dec.out.payload) = DeclaredLength(dec.data, dec.arg, 0)
    /\ dec.op = "parseOAuthTokenInfo" =>
           dec.out = WholeFieldsLoop(dec.data, 0, NoInfo)

====
